---- MODULE Spec2Model ----
(***************************************************************************)
(* Model of boa/core/recipe_output.py: the Output entity, variant          *)
(* application, the build -> host -> run solve with run-export propagation *)
(* and the finalisation of an Output's own run exports.                    *)
(*                                                                         *)
(* Python strings are sequences of one-character strings, so that          *)
(* startswith / endswith / replace are computed as Python computes them.   *)
(* A requirement text ("l-b >=2") is the sequence of its                   *)
(* whitespace-separated tokens, i.e. what str.split() returns.             *)
(***************************************************************************)
EXTENDS Integers, Sequences, FiniteSets, TLC

VARIABLES
    heap,       \* the Output objects, by identity: heap[i] is the i-th Output
    pkg_cache,  \* package cache on disk: final_triplet -> info/run_exports.json
    pc,         \* position of the caller / of finalize_solve
    cur,        \* the environment _solve_env is working on
    downloaded, \* the local of that name in _solve_env (line 566)
    calls,      \* the append_or_replace calls of each propagate_run_exports since the last solve
    entry,      \* self.requirements on entry to the current _solve_env
    ret,        \* how the latest call ended: returned, or what raised
    ncalls,     \* apply_variant calls made on the template so far
    recipe      \* the raw records the caller holds: d and parent of Output(d, config, parent)

vars == <<heap, pkg_cache, pc, cur, downloaded, calls, entry, ret, ncalls, recipe>>

-----------------------------------------------------------------------------
(* Strings                                                                 *)

StartsWith(s, p) == Len(p) <= Len(s) /\ SubSeq(s, 1, Len(p)) = p

EndsWith(s, p) == Len(p) <= Len(s) /\ SubSeq(s, Len(s) - Len(p) + 1, Len(s)) = p

\* str.replace for one-character patterns
Replace(s, a, b) == [i \in 1..Len(s) |-> IF s[i] = a THEN b ELSE s[i]]

UpperCase == <<"A", "B", "C", "D", "E", "F", "G", "H", "I", "J", "K", "L", "M",
               "N", "O", "P", "Q", "R", "S", "T", "U", "V", "W", "X", "Y", "Z">>
LowerCase == <<"a", "b", "c", "d", "e", "f", "g", "h", "i", "j", "k", "l", "m",
               "n", "o", "p", "q", "r", "s", "t", "u", "v", "w", "x", "y", "z">>

LowerChar(c) ==
    IF \E i \in DOMAIN UpperCase : UpperCase[i] = c
    THEN LowerCase[CHOOSE i \in DOMAIN UpperCase : UpperCase[i] = c]
    ELSE c

\* str.lower
Lower(s) == [i \in 1..Len(s) |-> LowerChar(s[i])]

SeqMax(S) == CHOOSE m \in S : \A x \in S : x <= m

-----------------------------------------------------------------------------
(* The values the model's inputs are drawn from                            *)

PY == <<"p", "y", "t", "h", "o", "n">>
LB == <<"l", "-", "b">>
L_B == <<"l", "_", "b">>
ZZ == <<"z">>

GE1 == <<">", "=", "1">>
GE2 == <<">", "=", "2">>

\* what the solver and the channel answer for every package
Version == <<"3", ".", "9">>
BuildString == <<"h", "0">>
ChannelUrl == <<"c", "f">>
\* ".".join(sys.version_info[:3]) of the running interpreter
SysVersion == <<"3", ".", "8", ".", "0">>

Envs == {"build", "host", "run", "run_constrained"}

\* conda_build.utils.RUN_EXPORTS_TYPES
RUN_EXPORTS_TYPES == {"weak", "strong", "noarch", "weak_constrains", "strong_constrains"}

\* the solver may return at most this many packages nobody asked for
MaxTransitive == 1

-----------------------------------------------------------------------------
(* CondaBuildSpec (boa/core/conda_build_spec.py)                           *)

\* second token of a deferred pin
PinSubpackageTok == <<"@", "s">>
PinCompatibleTok == <<"@", "c">>

NoVersion == <<>>

CondaBuildSpec(ms) ==
    [ raw                      |-> ms,
      splitted                 |-> ms,
      name                     |-> ms[1],
      final                    |-> ms,
      is_simple                |-> Len(ms) = 1,
      is_pin_subpackage        |-> Len(ms) > 1 /\ ms[2] = PinSubpackageTok,
      is_pin_compatible        |-> Len(ms) > 1 /\ ms[2] = PinCompatibleTok,
      from_run_export          |-> FALSE,
      from_pinnings            |-> FALSE,
      is_inherited             |-> FALSE,
      is_transitive_dependency |-> FALSE,
      final_version            |-> NoVersion,
      channel                  |-> <<>> ]

\* hasattr(s, "final_version")
HasFinalVersion(s) == s.final_version # NoVersion

\* s.final.split(" ")[0]
final_name(s) == s.final[1]

final_triplet(s) == <<final_name(s), s.final_version[1], s.final_version[2]>>

\* str(s): the text handed to the solver
Str(s) == s.final

\* pin_subpackage: rewritten against the Outputs of the session; a name that
\* is no Output of the session is a hard error; any other Spec is left alone
eval_pin_subpackage(s, all_outputs) ==
    LET hits == {i \in DOMAIN all_outputs : all_outputs[i].name = s.name}
    IN  IF ~s.is_pin_subpackage
        THEN [ok |-> TRUE, spec |-> s]
        ELSE IF hits = {}
        THEN [ok |-> FALSE, spec |-> s]
        ELSE LET o == all_outputs[CHOOSE i \in hits : \A j \in hits : i <= j]
             IN  [ok |-> TRUE, spec |-> [s EXCEPT !.final = <<s.name, o.version>>]]

\* pin_compatible: rewritten against the solved build and host lists (host
\* wins); a name found in neither, or found unresolved, is a hard error
eval_pin_compatible(s, build, host) ==
    LET inhost  == {i \in DOMAIN host : host[i].name = s.name}
        inbuild == {i \in DOMAIN build : build[i].name = s.name}
        found   == IF inhost # {} THEN host[SeqMax(inhost)] ELSE build[SeqMax(inbuild)]
    IN  IF inhost = {} /\ inbuild = {}
        THEN [ok |-> FALSE, spec |-> s]
        ELSE IF ~HasFinalVersion(found)
        THEN [ok |-> FALSE, spec |-> s]
        ELSE [ok |-> TRUE,
              spec |-> [s EXCEPT !.final = <<s.name, <<">", "=">> \o found.final_version[1]>>]]

-----------------------------------------------------------------------------
(* Output                                                                  *)

EmptyDict == <<>>

\* dict.get(k, [])
Get(d, k) == IF k \in DOMAIN d THEN d[k] ELSE <<>>

\* d[k] = v
Put(d, k, v) == (k :> v) @@ d

Specs(texts) == [i \in DOMAIN texts |-> CondaBuildSpec(texts[i])]

Finals(specs) == [i \in DOMAIN specs |-> specs[i].final]

\* d["build"]["run_exports"] is a list or a mapping from strength to list
RawList(lst) == [is_list |-> TRUE, value |-> lst]
RawDict(d) == [is_list |-> FALSE, value |-> d]
NoRunExports == RawDict(EmptyDict)

\* lines 126-139: a list is the weak exports
DeclaredRunExports(raw) ==
    [k \in RUN_EXPORTS_TYPES |->
        IF raw.is_list
        THEN (IF k = "weak" THEN Specs(raw.value) ELSE <<>>)
        ELSE Specs(Get(raw.value, k))]

\* an attribute that is not set
Unset == <<>>

\* Output.__init__, for a record without parent and without features
Output(name, noarch, reqs, run_exports, ignore, pins, variant) ==
    [ name                    |-> name,
      version                 |-> <<"1", ".", "0">>,
      noarch                  |-> noarch,
      requirements            |-> [e \in Envs |-> Specs(reqs[e])],
      run_exports             |-> DeclaredRunExports(run_exports),
      sections_run_exports    |-> run_exports,
      ignore_run_exports      |-> ignore,
      pin_run_as_build        |-> pins,
      data_requirements       |-> reqs,
      data_run_exports        |-> run_exports,
      config_variant          |-> variant,
      variant                 |-> Unset,
      differentiating_variant |-> Unset,
      final_build_id          |-> Unset,
      transactions            |-> EmptyDict ]

\* the Output finalize_solve, propagate_run_exports and set_final_build_id act on
self == 1

-----------------------------------------------------------------------------
(* propagate_run_exports                                                   *)

\* conda_build.utils.apply_pin_expressions: one token built from the version
apply_pin_expressions(version, pin) == <<">", "=">> \o version \o pin

IsPinned(o, s) == Replace(s.name, "-", "_") \in DOMAIN o.pin_run_as_build

\* a collection that skips neither transitive nor ignored Specs
ContributesUnfiltered(o, s, cache) ==
    /\ HasFinalVersion(s)
    /\ IsPinned(o, s) \/ final_triplet(s) \in DOMAIN cache

\* the Specs of env whose run exports are collected
Contributes(o, s, cache) ==
    /\ ~s.is_transitive_dependency
    /\ s.name \notin o.ignore_run_exports
    /\ HasFinalVersion(s)
    /\ IsPinned(o, s) \/ final_triplet(s) \in DOMAIN cache

run_exports_info(o, s, cache) ==
    IF IsPinned(o, s)
    THEN "weak" :> << <<final_name(s),
                        apply_pin_expressions(s.final_version[1],
                            o.pin_run_as_build[Replace(s.name, "-", "_")])>> >>
    ELSE cache[final_triplet(s)]

RECURSIVE collected_run_exports(_, _, _)
collected_run_exports(o, specs, cache) ==
    IF specs = <<>> THEN <<>>
    ELSE LET s    == Head(specs)
             rest == collected_run_exports(o, Tail(specs), cache)
         IN  IF Contributes(o, s, cache)
             THEN <<run_exports_info(o, s, cache)>> \o rest
             ELSE rest

\* for r in lst: append_or_replace(target, r)
To(target, lst) == [i \in DOMAIN lst |-> <<target, lst[i]>>]

\* for r in lst: append_or_replace("host", r); append_or_replace("run", r)
ToHostAndRun(lst) ==
    [i \in 1..(2 * Len(lst)) |->
        IF i % 2 = 1 THEN <<"host", lst[(i + 1) \div 2]>> ELSE <<"run", lst[i \div 2]>>]

\* a build propagation that treats weak exports like strong ones
BuildCallsWeakAsStrong(rex) ==
    ToHostAndRun(Get(rex, "strong"))
        \o ToHostAndRun(Get(rex, "weak"))
        \o To("run_constrained", Get(rex, "strong_constrains"))

\* env == "build", not noarch
BuildCalls(rex) ==
    ToHostAndRun(Get(rex, "strong"))
        \o To("host", Get(rex, "weak"))
        \o To("run_constrained", Get(rex, "strong_constrains"))

\* a host propagation that forgets the weak exports
HostCallsWithoutWeak(rex) ==
    To("run", Get(rex, "strong"))
        \o To("run_constrained", Get(rex, "strong_constrains"))
        \o To("run_constrained", Get(rex, "weak_constrains"))

\* env == "host", not noarch
HostCalls(rex) ==
    To("run", Get(rex, "strong"))
        \o To("run", Get(rex, "weak"))
        \o To("run_constrained", Get(rex, "strong_constrains"))
        \o To("run_constrained", Get(rex, "weak_constrains"))

\* env == "host", noarch
HostNoarchCalls(rex) == To("run", Get(rex, "noarch"))

\* a propagation that does not look at noarch
CallsForAnyArch(env, noarch, rex) ==
    IF env = "build" THEN BuildCalls(rex)
    ELSE IF env = "host" THEN HostCalls(rex) \o HostNoarchCalls(rex)
    ELSE <<>>

CallsFor(env, noarch, rex) ==
    IF env = "build" THEN (IF ~noarch THEN BuildCalls(rex) ELSE <<>>)
    ELSE IF env = "host" THEN (IF ~noarch THEN HostCalls(rex) ELSE HostNoarchCalls(rex))
    ELSE <<>>

\* the append_or_replace calls of one propagate_run_exports, in order
RECURSIVE PropagationCalls(_, _, _)
PropagationCalls(env, noarch, collected) ==
    IF collected = <<>> THEN <<>>
    ELSE CallsFor(env, noarch, Head(collected))
            \o PropagationCalls(env, noarch, Tail(collected))

\* an append_or_replace that never finds a Spec to replace
NoHits(lst, name) == {}

\* a match by name alone, simple or not
NamedHits(lst, name) == {i \in DOMAIN lst : final_name(lst[i]) = name}

\* line 479: the entries append_or_replace may replace
SimpleHits(lst, name) == {i \in DOMAIN lst : final_name(lst[i]) = name /\ lst[i].is_simple}

append_or_replace(reqs, target, text) ==
    LET spec == [CondaBuildSpec(text) EXCEPT !.from_run_export = TRUE]
        hits == SimpleHits(reqs[target], spec.name)
    IN  IF hits # {}
        THEN [reqs EXCEPT ![target][CHOOSE i \in hits : \A j \in hits : i <= j] = spec]
        ELSE [reqs EXCEPT ![target] = Append(@, spec)]

RECURSIVE ApplyCalls(_, _)
ApplyCalls(reqs, cs) ==
    IF cs = <<>> THEN reqs
    ELSE ApplyCalls(append_or_replace(reqs, Head(cs)[1], Head(cs)[2]), Tail(cs))

CallsOf(o, env, cache) ==
    PropagationCalls(env, o.noarch, collected_run_exports(o, o.requirements[env], cache))

propagate_run_exports(o, env, cache) ==
    [o EXCEPT !.requirements = ApplyCalls(@, CallsOf(o, env, cache))]

-----------------------------------------------------------------------------
(* _solve_env and finalize_solve                                           *)

EvalOne(s, env, all_outputs, build, host) ==
    IF s.is_pin_subpackage THEN eval_pin_subpackage(s, all_outputs)
    ELSE IF env = "run" /\ s.is_pin_compatible THEN eval_pin_compatible(s, build, host)
    ELSE [ok |-> TRUE, spec |-> s]

\* for s in specs: the deferred pins, in place, up to the first that raises
RECURSIVE EvalPins(_, _, _, _, _, _)
EvalPins(specs, i, env, all_outputs, build, host) ==
    IF i > Len(specs) THEN [ok |-> TRUE, specs |-> specs]
    ELSE LET r == EvalOne(specs[i], env, all_outputs, build, host)
         IN  IF ~r.ok THEN [ok |-> FALSE, specs |-> specs]
             ELSE EvalPins([specs EXCEPT ![i] = r.spec], i + 1, env, all_outputs, build, host)

\* a map of the Specs the solver has not added itself
spec_map_authored(specs) ==
    [n \in {final_name(specs[i]) :
                i \in {k \in DOMAIN specs : ~specs[k].is_transitive_dependency}} |->
        SeqMax({i \in DOMAIN specs :
                   ~specs[i].is_transitive_dependency /\ final_name(specs[i]) = n})]

\* {s.final_name: s for s in specs}: the last Spec of a name wins
spec_map(specs) ==
    [n \in {final_name(specs[i]) : i \in DOMAIN specs} |->
        SeqMax({i \in DOMAIN specs : final_name(specs[i]) = n})]

RECURSIVE Dedup(_)
Dedup(q) ==
    IF q = <<>> THEN <<>>
    ELSE LET front == Dedup(SubSeq(q, 1, Len(q) - 1))
             last  == q[Len(q)]
         IN  IF \E i \in DOMAIN front : front[i] = last THEN front ELSE Append(front, last)

Package(n) ==
    [name |-> n, version |-> Version, build_string |-> BuildString, channel |-> ChannelUrl]

\* names the solver may add on its own
TransitiveNames == {ZZ, LB}

Injective(q) == \A i, j \in DOMAIN q : i # j => q[i] # q[j]

\* solver.solve(specs, [pkg_cache]) followed by t.to_conda(): one package for
\* every requested name, then at most so many packages the solver added; a
\* transaction installs a package name once
SolverResultsUpTo(specs, most) ==
    LET asked  == Dedup([i \in DOMAIN specs |-> Str(specs[i])[1]])
        names  == {asked[i] : i \in DOMAIN asked}
        extras == {q \in UNION {[1..n -> TransitiveNames \ names] : n \in 0..most} :
                       Injective(q)}
    IN  {[i \in DOMAIN (asked \o q) |-> Package((asked \o q)[i])] : q \in extras}

SolverResults(specs) == SolverResultsUpTo(specs, MaxTransitive)

Transitive(p) ==
    [CondaBuildSpec(<<p.name>>) EXCEPT
        !.is_transitive_dependency = TRUE,
        !.final_version = <<p.version, p.build_string>>,
        !.channel = p.channel]

Bind(s, p) ==
    [s EXCEPT !.final_version = <<p.version, p.build_string>>, !.channel = p.channel]

\* for _, _, p in install_pkgs: bind the Spec of that name or append a transitive one
RECURSIVE Reconcile(_, _, _)
Reconcile(specs, map, pkgs) ==
    IF pkgs = <<>> THEN specs
    ELSE LET p == Head(pkgs)
         IN  IF p.name \in DOMAIN map
             THEN Reconcile([specs EXCEPT ![map[p.name]] = Bind(@, p)], map, Tail(pkgs))
             ELSE Reconcile(Append(specs, Transitive(p)), map, Tail(pkgs))

NextEnv(env) == IF env = "build" THEN "host" ELSE "run"

AfterEnv(env) == IF env = "run" THEN "backfill" ELSE "solve"

\* lines 511-564: the deferred pins, the solver call and the reconciliation,
\* with a solver that adds at most so many packages on its own
SolveEnvUpTo(most) ==
    /\ pc = "solve"
    /\ entry' = heap[self].requirements
    /\ downloaded' = "unset"
    /\ calls' = IF heap[self].requirements[cur] = <<>> THEN calls ELSE <<>>
    /\ UNCHANGED <<ncalls, recipe, pkg_cache>>
    /\ LET o    == heap[self]
           pins == EvalPins(o.requirements[cur], 1, cur, heap,
                            o.requirements["build"], o.requirements["host"])
           o1   == [o EXCEPT !.requirements[cur] = pins.specs]
           o2   == [o1 EXCEPT !.data_requirements[cur] = Finals(pins.specs)]
       IN  IF o.requirements[cur] = <<>>
           THEN /\ pc' = AfterEnv(cur)
                /\ cur' = NextEnv(cur)
                /\ UNCHANGED <<heap, ret>>
           ELSE IF ~pins.ok
           THEN /\ heap' = [heap EXCEPT ![self] = o1]
                /\ pc' = "raised"
                /\ ret' = "pin"
                /\ UNCHANGED cur
           ELSE \/ /\ heap' = [heap EXCEPT ![self] = o2]
                   /\ pc' = "raised"
                   /\ ret' = "solver"
                   /\ UNCHANGED cur
                \/ \E pkgs \in SolverResultsUpTo(pins.specs, most) :
                      /\ heap' = [heap EXCEPT ![self] =
                            [o2 EXCEPT
                                !.requirements[cur] =
                                    Reconcile(pins.specs, spec_map(pins.specs), pkgs),
                                !.transactions =
                                    Put(@, cur, [transaction |-> pkgs, pkg_cache |-> "pkgs"])]]
                      /\ pc' = "fetch"
                      /\ UNCHANGED <<cur, ret>>

SolveEnv == SolveEnvUpTo(MaxTransitive)

\* a _solve_env that propagates after every environment, run included
AfterFetchAlwaysPropagates(answer, env) ==
    IF answer = "false" THEN "raised" ELSE "propagate"

\* a _solve_env that does not look at the answer
AfterFetchUnchecked(answer, env) ==
    IF env \in {"build", "host"} THEN "propagate" ELSE "backfill"

\* where _solve_env goes once fetch_extract_packages has answered
AfterFetch(answer, env) ==
    IF answer = "false" THEN "raised"
    ELSE IF env \in {"build", "host"} THEN "propagate"
    ELSE "backfill"

\* lines 566-568: t.fetch_extract_packages()
Fetch ==
    /\ pc = "fetch"
    /\ UNCHANGED <<ncalls, heap, recipe, pkg_cache, cur, calls, entry>>
    /\ downloaded' \in {"true", "false"}
    /\ pc' = AfterFetch(downloaded', cur)
    /\ ret' = IF pc' = "raised" THEN "fetch" ELSE ret

\* lines 570-571
Propagate ==
    /\ pc = "propagate"
    /\ heap' = [heap EXCEPT ![self] = propagate_run_exports(@, cur, pkg_cache)]
    /\ calls' = << [env |-> cur, made |-> CallsOf(heap[self], cur, pkg_cache)] >>
    /\ pc' = "solve"
    /\ cur' = NextEnv(cur)
    /\ UNCHANGED <<ncalls, recipe, pkg_cache, downloaded, entry, ret>>

\* lines 597-608: the python key of the variant. The loop over build + host
\* writes the version of every python-named Spec it passes, the last one
\* winning; reading final_version of an unbound one raises after the writes
\* of the Specs before it. A call that returns ends with
\* self.variant = self.config.variant
Backfill ==
    /\ pc = "backfill"
    /\ UNCHANGED <<ncalls, recipe, pkg_cache, cur, downloaded, calls, entry>>
    /\ LET o       == heap[self]
           both    == o.requirements["build"] \o o.requirements["host"]
           pythons == {i \in DOMAIN both : both[i].name = PY}
           unbound == {i \in pythons : ~HasFinalVersion(both[i])}
           written == {i \in pythons : \A u \in unbound : i < u}
           looped  == IF written = {} THEN o.config_variant
                      ELSE Put(o.config_variant, PY, both[SeqMax(written)].final_version[1])
           final   == IF PY \in DOMAIN looped THEN looped ELSE Put(looped, PY, SysVersion)
       IN  IF PY \in DOMAIN o.config_variant
           THEN /\ heap' = [heap EXCEPT ![self].variant = o.config_variant]
                /\ pc' = "done"
                /\ ret' = "returned"
           ELSE IF unbound # {}
           THEN /\ heap' = [heap EXCEPT ![self].config_variant = looped]
                /\ pc' = "raised"
                /\ ret' = "final_version"
           ELSE /\ heap' = [heap EXCEPT ![self].config_variant = final,
                                        ![self].variant = final]
                /\ pc' = "done"
                /\ ret' = "returned"

-----------------------------------------------------------------------------
(* The recipes and package caches finalize_solve is run on                 *)

BuildLists == { <<>>, << <<PY>> >>, << <<LB>> >> }

HostLists == { <<>>, << <<LB>> >>, << <<LB, GE1>> >>, << <<PY>>, <<LB>> >> }

RunLists == { <<>>, << <<LB>> >>, << <<LB, GE1>> >>, << <<LB, PinCompatibleTok>> >> }

ConstrainedLists == { <<>>, << <<LB, GE1>> >> }

NoFile == "absent" :> <<>>

\* contents of info/run_exports.json
RunExportsFiles ==
    { "strong" :> << <<LB, GE2>> >>,
      "weak" :> << <<LB>> >>,
      ("strong" :> << <<LB, GE2>> >>) @@ ("weak" :> << <<LB>> >>),
      ("strong_constrains" :> << <<LB, GE2>> >>) @@ ("weak_constrains" :> << <<LB>> >>),
      "noarch" :> << <<LB>> >>,
      [k \in RUN_EXPORTS_TYPES |->
          IF k \in {"strong", "strong_constrains"} THEN << <<LB>> >> ELSE << <<LB, GE2>> >>],
      EmptyDict }

CachesOf(f) ==
    [t \in {<<n, Version, BuildString>> : n \in {m \in DOMAIN f : f[m] # NoFile}} |-> f[t[1]]]

\* run_exports.json of the python package, when it has one
PythonFiles ==
    { [k \in RUN_EXPORTS_TYPES |->
          IF k \in {"strong", "strong_constrains"} THEN << <<LB>> >> ELSE << <<LB, GE2>> >>],
      "weak" :> << <<PY, GE1>> >> }

Caches ==
    {CachesOf(f) : f \in {g \in [{PY, LB} -> RunExportsFiles \cup {NoFile}] :
                              g[PY] \in PythonFiles \cup {NoFile}}}

\* ignore_run_exports and pin_run_as_build of the recipe
Recipes ==
    { [ignore |-> {}, pins |-> EmptyDict],
      [ignore |-> {LB}, pins |-> EmptyDict],
      [ignore |-> {}, pins |-> L_B :> <<",", "<", "4">>] }

Init ==
    /\ \E b \in BuildLists, h \in HostLists, r \in RunLists, c \in ConstrainedLists,
          noarch \in BOOLEAN, rcp \in Recipes :
          heap = << Output(<<"o">>, noarch,
                           [e \in Envs |-> CASE e = "build" -> b [] e = "host" -> h
                                             [] e = "run" -> r [] OTHER -> c],
                           NoRunExports, rcp.ignore, rcp.pins, EmptyDict) >>
    /\ pkg_cache \in Caches
    /\ pc = "solve"
    /\ cur = "build"
    /\ downloaded = "unset"
    /\ calls = <<>>
    /\ entry = heap[self].requirements
    /\ ret = "running"
    /\ ncalls = 0
    /\ recipe = EmptyDict

Next == SolveEnv \/ Fetch \/ Propagate \/ Backfill

Spec == Init /\ [][Next]_vars

\* a caller that calls propagate_run_exports once more for the environment
\* _solve_env has just propagated, before the next environment is solved
PropagateAgain ==
    /\ pc = "solve"
    /\ Len(calls) = 1
    /\ heap' = [heap EXCEPT ![self] = propagate_run_exports(@, calls[1].env, pkg_cache)]
    /\ calls' = Append(calls, [env  |-> calls[1].env,
                               made |-> CallsOf(heap[self], calls[1].env, pkg_cache)])
    /\ UNCHANGED <<ncalls, recipe, pkg_cache, pc, cur, downloaded, entry, ret>>

NextTwice == Next \/ PropagateAgain

SpecTwice == Init /\ [][NextTwice]_vars

-----------------------------------------------------------------------------
(* Properties of finalize_solve                                            *)

Range(q) == {q[i] : i \in DOMAIN q}

SolvedEnvs == {"build", "host", "run"}

\* the texts declared under the strengths kinds by the collected run exports
Exported(collected, kinds) ==
    UNION {Range(Get(collected[k], st)) : k \in DOMAIN collected, st \in kinds}

\* lst holds the export r: a from_run_export Spec of r's name, and r itself
\* when r carries a constraint
Present(lst, r) ==
    \E i \in DOMAIN lst :
        /\ lst[i].from_run_export
        /\ final_name(lst[i]) = r[1]
        /\ Len(r) > 1 => lst[i].raw = r

\* every Spec of new was in old or is a from_run_export Spec of one of texts
Explained(old, new, texts) ==
    \A i \in DOMAIN new :
        \/ \E j \in DOMAIN old : old[j] = new[i]
        \/ new[i].from_run_export /\ new[i].raw \in texts

\* the environments _solve_env(env) has not reached yet
Later(env) ==
    CASE env = "build" -> {"host", "run", "run_constrained"}
      [] env = "host"  -> {"run", "run_constrained"}
      [] OTHER         -> {"run_constrained"}

\* C1 (as claimed, for the three lists finalize_solve solves): once
\* finalize_solve has returned, every Spec of build, host and run has a bound
\* final_version.
C1_SolveCompleteness ==
    pc = "done" =>
        \A e \in SolvedEnvs : \A i \in DOMAIN heap[self].requirements[e] :
            HasFinalVersion(heap[self].requirements[e][i])

\* C2: for a non-noarch Output, propagate_run_exports("host") inserts every
\* strong and weak export collected from host into run and every
\* strong_constrains and weak_constrains export into run_constrained, makes
\* no other insertion, and leaves build and host as they were.
C2_HostTargets ==
    [][(pc = "propagate" /\ cur = "host" /\ ~heap[self].noarch) =>
        LET old       == heap[self].requirements
            new       == heap'[self].requirements
            collected == collected_run_exports(heap[self], old["host"], pkg_cache)
            toRun     == Exported(collected, {"strong", "weak"})
            toConstr  == Exported(collected, {"strong_constrains", "weak_constrains"})
        IN  /\ Range(calls'[1].made) =
                   {<<"run", r>> : r \in toRun}
                       \cup {<<"run_constrained", r>> : r \in toConstr}
            /\ \A r \in toRun : Present(new["run"], r)
            /\ \A r \in toConstr : Present(new["run_constrained"], r)
            /\ Explained(old["run"], new["run"], toRun)
            /\ Explained(old["run_constrained"], new["run_constrained"], toConstr)
            /\ new["build"] = old["build"]
            /\ new["host"] = old["host"]]_vars

\* host holds a resolved l-b whose package declares strong ["l-b >=2"]; after
\* the propagation run holds "l-b >=2" from_run_export, and something went
\* to run_constrained as well
C2_Witness ==
    /\ pc = "solve" /\ cur = "run" /\ ~heap[self].noarch
    /\ Len(calls) = 1 /\ calls[1].env = "host"
    /\ \E i \in DOMAIN heap[self].requirements["host"] :
          LET s == heap[self].requirements["host"][i]
          IN  /\ s.name = LB /\ HasFinalVersion(s) /\ ~IsPinned(heap[self], s)
              /\ final_triplet(s) \in DOMAIN pkg_cache
              /\ Get(pkg_cache[final_triplet(s)], "strong") = << <<LB, GE2>> >>
    /\ \E i \in DOMAIN heap[self].requirements["run"] :
          /\ heap[self].requirements["run"][i].raw = <<LB, GE2>>
          /\ heap[self].requirements["run"][i].from_run_export
    /\ \E k \in DOMAIN calls[1].made : calls[1].made[k][1] = "run_constrained"

\* C3: for a non-noarch Output, propagate_run_exports("build") inserts every
\* strong export into host and run, every weak export into host only, every
\* strong_constrains export into run_constrained, inserts nothing else
\* (no weak_constrains, no noarch export) and leaves build as it was.
C3_BuildTargets ==
    [][(pc = "propagate" /\ cur = "build" /\ ~heap[self].noarch) =>
        LET old       == heap[self].requirements
            new       == heap'[self].requirements
            collected == collected_run_exports(heap[self], old["build"], pkg_cache)
            strong    == Exported(collected, {"strong"})
            weak      == Exported(collected, {"weak"})
            constr    == Exported(collected, {"strong_constrains"})
        IN  /\ Range(calls'[1].made) =
                   {<<"host", r>> : r \in strong \cup weak}
                       \cup {<<"run", r>> : r \in strong}
                       \cup {<<"run_constrained", r>> : r \in constr}
            /\ \A r \in strong \cup weak : Present(new["host"], r)
            /\ \A r \in strong : Present(new["run"], r)
            /\ \A r \in constr : Present(new["run_constrained"], r)
            /\ Explained(old["host"], new["host"], strong \cup weak)
            /\ Explained(old["run"], new["run"], strong)
            /\ Explained(old["run_constrained"], new["run_constrained"], constr)
            /\ new["build"] = old["build"]]_vars

\* the build package declared exports of all five strengths, with a weak one
\* that is no strong one, and the propagation has run
C3_Witness ==
    /\ pc = "solve" /\ cur = "host" /\ ~heap[self].noarch
    /\ Len(calls) = 1 /\ calls[1].env = "build"
    /\ LET collected == collected_run_exports(heap[self],
                            heap[self].requirements["build"], pkg_cache)
       IN  \E k \in DOMAIN collected :
              /\ \A st \in RUN_EXPORTS_TYPES : Get(collected[k], st) # <<>>
              /\ Range(Get(collected[k], "weak")) \cap Range(Get(collected[k], "strong")) = {}
    /\ \E k \in DOMAIN calls[1].made : calls[1].made[k][1] = "run"
    /\ \E k \in DOMAIN calls[1].made : calls[1].made[k][1] = "host"

\* C4: for a noarch Output, propagate_run_exports("build") changes no
\* requirement list, and propagate_run_exports("host") inserts the
\* noarch-strength exports into run and nothing else anywhere.
C4_NoarchSuppression ==
    [][(pc = "propagate" /\ heap[self].noarch) =>
        LET old       == heap[self].requirements
            new       == heap'[self].requirements
            collected == collected_run_exports(heap[self], old[cur], pkg_cache)
            noarch    == Exported(collected, {"noarch"})
        IN  IF cur = "build"
            THEN new = old /\ calls'[1].made = <<>>
            ELSE /\ Range(calls'[1].made) = {<<"run", r>> : r \in noarch}
                 /\ \A r \in noarch : Present(new["run"], r)
                 /\ Explained(old["run"], new["run"], noarch)
                 /\ \A e \in Envs \ {"run"} : new[e] = old[e]]_vars

\* a noarch Output whose host package declares strong and noarch exports
\* that differ; the noarch one was inserted
C4_Witness ==
    /\ pc = "solve" /\ cur = "run" /\ heap[self].noarch
    /\ Len(calls) = 1 /\ calls[1].env = "host" /\ calls[1].made # <<>>
    /\ LET collected == collected_run_exports(heap[self],
                            heap[self].requirements["host"], pkg_cache)
       IN  \E k \in DOMAIN collected :
              /\ Get(collected[k], "noarch") # <<>>
              /\ Get(collected[k], "strong") # <<>>
              /\ Range(Get(collected[k], "strong")) \cap Range(Get(collected[k], "noarch")) = {}

\* C8: when fetch_extract_packages answers false for environment E,
\* _solve_env raises, the lists of the later environments are as they were on
\* entry to _solve_env(E), no later environment has a transaction, and
\* nothing more happens: finalize_solve never returns.
C8_FetchFailureIsFatal ==
    downloaded = "false" =>
        /\ pc = "raised" /\ ret = "fetch"
        /\ \A e \in Later(cur) :
              /\ heap[self].requirements[e] = entry[e]
              /\ e \notin DOMAIN heap[self].transactions
        /\ ~ENABLED Next

\* the fetch failed for build although its package has exports to propagate
C8_Witness ==
    /\ downloaded = "false" /\ cur = "build"
    /\ CallsOf(heap[self], "build", pkg_cache) # <<>>

\* C10 (as claimed): at every point of finalize_solve, a Spec of the
\* requirements has a final_version exactly when the solve of its environment
\* has completed (its transaction is recorded).
C10_FinalVersionIffSolved ==
    \A e \in Envs : \A i \in DOMAIN heap[self].requirements[e] :
        HasFinalVersion(heap[self].requirements[e][i])
            <=> e \in DOMAIN heap[self].transactions

-----------------------------------------------------------------------------
(* Propagating twice                                                       *)

AllNames == {PY, LB, ZZ}

NamesOf(lst) == [i \in DOMAIN lst |-> final_name(lst[i])]

Named(lst, n) == {i \in DOMAIN lst : final_name(lst[i]) = n}

\* every export of name n that the calls cs insert into target e is simple
OnlySimple(cs, e, n) ==
    \A k \in DOMAIN cs : (cs[k][1] = e /\ cs[k][2][1] = n) => Len(cs[k][2]) = 1

IsSecondCall == pc = "solve" /\ Len(calls) = 1 /\ Len(calls') = 2

\* C5 (as claimed): a second propagate_run_exports for the same resolved
\* environment leaves every target list with the length and the names it
\* had after the first.
C5_TwiceSameLists ==
    [][IsSecondCall =>
        \A e \in Envs :
            NamesOf(heap'[self].requirements[e]) = NamesOf(heap[self].requirements[e])]_vars

\* C5 (amended): the second call adds no entry for a name all of whose
\* exports into that target are simple: the entries of that name keep their
\* positions and their values, and the first simple one is a from_run_export
\* Spec.
C5_TwiceSimpleInPlace ==
    [][IsSecondCall =>
        LET old  == heap[self].requirements
            new  == heap'[self].requirements
            made == calls'[2].made
        IN  /\ made = calls[1].made
            /\ \A e \in Envs : \A n \in AllNames :
                  (OnlySimple(made, e, n) /\ \E k \in DOMAIN made : made[k] = <<e, <<n>> >>) =>
                      /\ Named(new[e], n) = Named(old[e], n)
                      /\ \A i \in Named(old[e], n) : new[e][i] = old[e][i]
                      /\ \E i \in SimpleHits(new[e], n) :
                            /\ new[e][i].from_run_export
                            /\ \A j \in SimpleHits(new[e], n) : i <= j]_vars

\* the second call has been made, with a simple export that the first call
\* had put in place of an authored simple Spec
C5_Witness ==
    /\ Len(calls) = 2
    /\ \E k \in DOMAIN calls[2].made :
          LET e == calls[2].made[k][1]
              n == calls[2].made[k][2][1]
          IN  /\ OnlySimple(calls[2].made, e, n)
              /\ Len(entry[e]) > 0
              /\ Len(heap[self].requirements[e]) = Len(entry[e])
              /\ \E i \in DOMAIN entry[e] : entry[e][i].is_simple /\ ~entry[e][i].from_run_export
                     /\ heap[self].requirements[e][i].from_run_export

-----------------------------------------------------------------------------
(* apply_variant                                                           *)

COMPILER_ == <<"C", "O", "M", "P", "I", "L", "E", "R", "_">>
COMPILER_C == COMPILER_ \o <<"C">>

_compiler == <<"_", "c", "o", "m", "p", "i", "l", "e", "r">>
_compiler_version == _compiler \o <<"_", "v", "e", "r", "s", "i", "o", "n">>
target_platform == <<"t", "a", "r", "g", "e", "t", "_", "p", "l", "a", "t", "f", "o", "r", "m">>

GCC == <<"g", "c", "c">>
CLANG == <<"c", "l", "a", "n", "g">>
LINUX64 == <<"l", "i", "n", "u", "x", "-", "6", "4">>

\* conda_build.jinja_context.native_compiler on a linux build machine
native_compiler(lang, config) ==
    CASE lang = <<"c">>      -> GCC
      [] lang = <<"c", "x", "x">> -> <<"g", "x", "x">>
      [] OTHER               -> lang

\* a lookup that never finds the key
NeverTruthy(variant, k) == FALSE

\* variant.get(k) is truthy
Truthy(variant, k) == k \in DOMAIN variant /\ variant[k] # <<>>

\* a copy that shares the object with its source
copy_alias(h, me) == [heap |-> h, id |-> me]

\* copy.deepcopy(self): a new object, equal to self, sharing nothing with it
copy_deepcopy(h, me) == [heap |-> Append(h, h[me]), id |-> Len(h) + 1]

\* a pinned Spec that keeps neither flag of the loop body
PinnedUnflagged(r, value) == CondaBuildSpec(<<r.name, value>>)

\* lines 203-207
Pinned(r, value) ==
    [CondaBuildSpec(<<r.name, value>>) EXCEPT
        !.from_pinnings = TRUE,
        !.is_inherited = r.is_inherited]

\* lines 200-216: for idx, r in enumerate(self.requirements[env])
RECURSIVE PinFrom(_, _, _, _, _, _)
PinFrom(h, me, copied, env, variant, idx) ==
    IF idx > Len(h[me].requirements[env]) THEN h
    ELSE LET r     == h[me].requirements[env][idx]
             vname == Replace(r.name, "-", "_")
         IN  IF vname \in DOMAIN variant
             THEN PinFrom([h EXCEPT ![copied].requirements[env][idx] = Pinned(r, variant[vname])],
                          me, copied, env, variant, idx + 1)
             ELSE PinFrom(h, me, copied, env, variant, idx + 1)

\* lines 228-242: the COMPILER_ Specs of build; err names what was raised
RECURSIVE CompilerFrom(_, _, _, _, _)
CompilerFrom(h, me, copied, variant, idx) ==
    IF idx > Len(h[me].requirements["build"]) THEN [heap |-> h, err |-> "none"]
    ELSE LET r == h[me].requirements["build"][idx]
         IN  IF ~StartsWith(r.name, COMPILER_)
             THEN CompilerFrom(h, me, copied, variant, idx + 1)
             ELSE IF Len(r.splitted) < 2
             THEN [heap |-> h, err |-> "IndexError"]
             ELSE IF target_platform \notin DOMAIN variant
             THEN [heap |-> h, err |-> "KeyError"]
             ELSE LET lang     == Lower(r.splitted[2])
                      base     == IF Truthy(variant, lang \o _compiler)
                                  THEN variant[lang \o _compiler]
                                  ELSE native_compiler(lang, h[copied].config_variant)
                      compiler == base \o <<"_">> \o variant[target_platform]
                      final    == IF Truthy(variant, lang \o _compiler_version)
                                  THEN <<compiler, variant[lang \o _compiler_version] \o <<"*">> >>
                                  ELSE <<compiler>>
                  IN  CompilerFrom(
                          [h EXCEPT ![copied].requirements["build"][idx] =
                              [@ EXCEPT !.final = final, !.from_pinnings = TRUE]],
                          me, copied, variant, idx + 1)

\* a host check that never fires
NoCompilerInHost(o) == FALSE

\* lines 244-246
CompilerInHost(o) ==
    \E i \in DOMAIN o.requirements["host"] :
        StartsWith(o.requirements["host"][i].name, COMPILER_)

\* conda_build.config.get_or_merge_config: a new config, the variant laid
\* over the variant of the given one
get_or_merge_config(config_variant, variant) == variant @@ config_variant

\* the heap and the outcome after self.apply_variant(variant, differentiating_keys)
apply_variant(h, me, variant, differentiating_keys) ==
    LET c    == copy_deepcopy(h, me)
        h1   == [c.heap EXCEPT ![c.id].variant = variant]
        h2   == PinFrom(h1, me, c.id, "build", variant, 1)
        h3   == PinFrom(h2, me, c.id, "host", variant, 1)
        r4   == CompilerFrom(h3, me, c.id, variant, 1)
        h5   == [r4.heap EXCEPT ![c.id].config_variant =
                    get_or_merge_config(r4.heap[me].config_variant, variant)]
        h6   == [h5 EXCEPT ![c.id].differentiating_variant =
                    [i \in DOMAIN differentiating_keys |-> variant[differentiating_keys[i]]]]
    IN  IF r4.err # "none" THEN [heap |-> r4.heap, ret |-> r4.err, id |-> c.id]
        ELSE IF CompilerInHost(r4.heap[me])
        THEN [heap |-> r4.heap, ret |-> "RuntimeError", id |-> c.id]
        ELSE IF \E i \in DOMAIN differentiating_keys : differentiating_keys[i] \notin DOMAIN variant
        THEN [heap |-> h5, ret |-> "KeyError", id |-> c.id]
        ELSE [heap |-> h6, ret |-> "returned", id |-> c.id]

\* the caller may call apply_variant on the template this many times
MaxCalls == 2

TemplateBuilds ==
    { <<>>, << <<LB>> >>, << <<COMPILER_C, <<"c">> >> >>, << <<LB, GE1>>, <<COMPILER_C, <<"c">> >> >> }

TemplateHosts ==
    { <<>>, << <<LB>> >>, << <<PY>>, <<LB, GE1>> >>, << <<COMPILER_C, <<"c">> >> >>,
      << <<LB>>, <<COMPILER_C, <<"c">> >> >> }

TemplateRuns == { <<>>, << <<LB>> >> }

Platform == target_platform :> LINUX64

Variants ==
    { EmptyDict,
      Platform,
      Platform @@ (<<"c">> \o _compiler :> CLANG),
      Platform @@ (<<"c">> \o _compiler :> CLANG) @@ (<<"c">> \o _compiler_version :> <<"1", "1">>),
      Platform @@ (<<"c">> \o _compiler :> GCC) @@ (<<"c">> \o _compiler_version :> <<"1", "1">>),
      Platform @@ (<<"c">> \o _compiler_version :> <<"9">>),
      Platform @@ (L_B :> <<"1", ".", "2">>),
      Platform @@ (L_B :> <<"2", ".", "0">>) @@ (PY :> <<"3", ".", "9">>) }

DifferentiatingKeys == { <<>>, <<L_B>>, <<PY, L_B>> }

\* a merge that copies the Specs in without flagging them
merge_requirements_unflagged(a, b) ==
    LET b_names == {b[i].name : i \in DOMAIN b}
        Absent(r) == r.name \notin b_names
    IN  b \o SelectSeq(a, Absent)

\* lines 155-166: b after merge_requirements(a, b). b_names is taken once,
\* before the loop; rc is a deep copy of r
merge_requirements(a, b) ==
    LET b_names == {b[i].name : i \in DOMAIN b}
        Absent(r) == r.name \notin b_names
        copies == SelectSeq(a, Absent)
    IN  b \o [i \in DOMAIN copies |-> [copies[i] EXCEPT !.is_inherited = TRUE]]

\* what the template may inherit from the step it requires
TemplateSteps ==
    { [build |-> <<>>, host |-> <<>>],
      [build |-> << <<LB>> >>, host |-> << <<PY>>, <<LB, GE1>> >>],
      [build |-> << <<LB, GE1>>, <<COMPILER_C, <<"c">> >> >>, host |-> << <<LB>> >>] }

\* lines 168-172 for one required step: the template after it has inherited
\* the build and host Specs of that step; data["requirements"] is left alone
Inherited(o, step) ==
    [o EXCEPT !.requirements["build"] = merge_requirements(Specs(step.build), @),
              !.requirements["host"] = merge_requirements(Specs(step.host), @)]

InitVariant ==
    /\ \E b \in TemplateBuilds, h \in TemplateHosts, r \in TemplateRuns, u \in TemplateSteps :
          heap = << Inherited(
                      Output(<<"o">>, FALSE,
                             [e \in Envs |-> CASE e = "build" -> b [] e = "host" -> h
                                               [] OTHER -> r],
                             NoRunExports, {}, EmptyDict, EmptyDict), u) >>
    /\ pkg_cache = EmptyDict
    /\ pc = "template"
    /\ cur = "build"
    /\ downloaded = "unset"
    /\ calls = <<>>
    /\ entry = heap[self].requirements
    /\ ret = "running"
    /\ ncalls = 0
    /\ recipe = EmptyDict

\* copied = self.apply_variant(variant, differentiating_keys); a copy that was
\* being built when the call raised is garbage
ApplyVariant ==
    /\ pc = "template"
    /\ ncalls < MaxCalls
    /\ \E variant \in Variants, keys \in DifferentiatingKeys :
          LET r == apply_variant(heap, self, variant, keys)
          IN  /\ heap' = IF r.ret = "returned" THEN r.heap ELSE SubSeq(r.heap, 1, Len(heap))
              /\ ret' = r.ret
    /\ ncalls' = ncalls + 1
    /\ UNCHANGED <<recipe, pkg_cache, pc, cur, downloaded, calls, entry>>

NextVariant == ApplyVariant

SpecVariant == InitVariant /\ [][NextVariant]_vars

\* C6: apply_variant never mutates the template, whatever the variant and
\* whether it returns or raises, nor any copy returned earlier: every Output
\* that existed before the call is the same after it.
C6_VariantIsolation ==
    [][\A i \in DOMAIN heap : i \in DOMAIN heap' /\ heap'[i] = heap[i]]_vars

\* two calls have been made; one returned a copy whose build and host were
\* rewritten, the latest raised
C6_Witness ==
    /\ ncalls = 2
    /\ Len(heap) = 2
    /\ heap[2].requirements["build"] # heap[self].requirements["build"]
    /\ heap[2].requirements["host"] # heap[self].requirements["host"]
    /\ ret = "KeyError"

\* C9: whenever a host Spec of the template has a name starting with
\* COMPILER_, apply_variant raises for every variant: no Output is returned
\* and no list of any Output changes.
C9_CompilerInHostRaises ==
    [][((\E i \in DOMAIN heap[self].requirements["host"] :
            StartsWith(heap[self].requirements["host"][i].name, COMPILER_))
        /\ ncalls' = ncalls + 1) =>
            /\ ret' \notin {"running", "returned"}
            /\ heap' = heap]_vars

\* a call raised on a template with the compiler in host and none in build,
\* so it is the host check that raised
C9_Witness ==
    /\ ncalls > 0
    /\ ret = "RuntimeError"
    /\ \E i \in DOMAIN heap[self].requirements["host"] :
          heap[self].requirements["host"][i].name = COMPILER_C
    /\ \A i \in DOMAIN heap[self].requirements["build"] :
          ~StartsWith(heap[self].requirements["build"][i].name, COMPILER_)

-----------------------------------------------------------------------------
(* set_final_build_id                                                      *)

_static == <<"-", "s", "t", "a", "t", "i", "c">>

\* a test with startswith the wrong way round
IsExportOfSelf(name, x) == EndsWith(name, _static) /\ StartsWith(x.name, name)

\* line 580
IsSelfExport(name, x) == EndsWith(name, _static) /\ StartsWith(name, x.name)

\* lines 579-584: for x in run_exports_list, where emptying the list ends the loop
RECURSIVE EvalExportsFrom(_, _, _, _)
EvalExportsFrom(name, lst, idx, all_outputs) ==
    IF idx > Len(lst) THEN [ok |-> TRUE, list |-> lst]
    ELSE IF IsSelfExport(name, lst[idx]) THEN [ok |-> TRUE, list |-> <<>>]
    ELSE LET r == eval_pin_subpackage(lst[idx], all_outputs)
         IN  IF ~r.ok THEN [ok |-> FALSE, list |-> lst]
             ELSE EvalExportsFrom(name, [lst EXCEPT ![idx] = r.spec], idx + 1, all_outputs)

\* lines 578-587: for k, run_exports_list in self.run_exports.items(), the
\* strengths in the order the mapping yields them
RECURSIVE FinalizeFrom(_, _, _, _, _)
FinalizeFrom(o, final_run_exports, order, idx, all_outputs) ==
    IF idx > Len(order) THEN [ok |-> TRUE, output |-> o, final |-> final_run_exports]
    ELSE LET k == order[idx]
             r == EvalExportsFrom(o.name, o.run_exports[k], 1, all_outputs)
             o1 == [o EXCEPT !.run_exports[k] = r.list]
         IN  IF ~r.ok THEN [ok |-> FALSE, output |-> o1, final |-> final_run_exports]
             ELSE FinalizeFrom(o1,
                               IF r.list # <<>> THEN Put(final_run_exports, k, Finals(r.list))
                               ELSE final_run_exports,
                               order, idx + 1, all_outputs)

\* data["build"]["run_exports"] = None
NoneValue == RawDict("None" :> <<>>)

BuildId == <<"h", "1">>

set_final_build_id(o, order, all_outputs) ==
    LET o1 == [o EXCEPT !.final_build_id = BuildId]
        r  == FinalizeFrom(o1, EmptyDict, order, 1, all_outputs)
    IN  IF ~r.ok THEN [ok |-> FALSE, output |-> r.output]
        ELSE [ok |-> TRUE,
              output |-> [r.output EXCEPT !.data_run_exports =
                              IF r.final = EmptyDict THEN NoneValue ELSE RawDict(r.final)]]

FO == <<"f", "o">>
FOX == <<"f", "o", "x">>
GG == <<"g">>

OutputNames == { FO \o _static, FO }

ExportTexts ==
    { <<FO>>, <<FO, GE1>>, << <<"f">> >>, <<GG, GE1>>, <<FOX>>,
      <<FO \o _static, PinSubpackageTok>>, <<GG, PinSubpackageTok>> }

\* an Output declares at most this many exports of one strength
MaxExports == 2

ExportLists == UNION {[1..n -> ExportTexts] : n \in 0..MaxExports}

DeclaredExports ==
    {RawList(w) : w \in ExportLists}
        \cup {RawDict(("weak" :> w) @@ ("strong" :> << x >>) @@ ("noarch" :> << <<FO>> >>)) :
                  w \in ExportLists, x \in {<<GG, GE1>>, <<FO, GE1>>}}
        \cup {NoRunExports}

\* the orders in which a dict keyed by the set RUN_EXPORTS_TYPES is iterated
KeyOrders ==
    {q \in [1..Cardinality(RUN_EXPORTS_TYPES) -> RUN_EXPORTS_TYPES] : Injective(q)}

InitExports ==
    /\ \E name \in OutputNames, exports \in DeclaredExports :
          heap = << Output(name, FALSE, [e \in Envs |-> <<>>], exports, {}, EmptyDict, EmptyDict) >>
    /\ pkg_cache = EmptyDict
    /\ pc = "declared"
    /\ cur = "build"
    /\ downloaded = "unset"
    /\ calls = <<>>
    /\ entry = heap[self].requirements
    /\ ret = "running"
    /\ ncalls = 0
    /\ recipe = EmptyDict

SetFinalBuildId ==
    /\ pc = "declared"
    /\ \E order \in KeyOrders :
          LET r == set_final_build_id(heap[self], order, heap)
          IN  /\ heap' = [heap EXCEPT ![self] = r.output]
              /\ ret' = IF r.ok THEN "returned" ELSE "RuntimeError"
    /\ pc' = "finalized"
    /\ UNCHANGED <<recipe, pkg_cache, cur, downloaded, calls, entry, ncalls>>

NextExports == SetFinalBuildId

SpecExports == InitExports /\ [][NextExports]_vars

\* C7: once set_final_build_id has returned for an Output whose name ends in
\* "-static", no run-export entry of any strength, in self.run_exports and in
\* data["build"]["run_exports"], has a name that is a prefix of the Output's name.
C7_SelfExportSuppressed ==
    (pc = "finalized" /\ ret = "returned" /\ EndsWith(heap[self].name, _static)) =>
        /\ \A k \in RUN_EXPORTS_TYPES : \A i \in DOMAIN heap[self].run_exports[k] :
              /\ ~StartsWith(heap[self].name, heap[self].run_exports[k][i].name)
              /\ ~StartsWith(heap[self].name, final_name(heap[self].run_exports[k][i]))
        /\ heap[self].data_run_exports # NoneValue =>
              \A k \in DOMAIN heap[self].data_run_exports.value :
                  \A i \in DOMAIN heap[self].data_run_exports.value[k] :
                      ~StartsWith(heap[self].name, heap[self].data_run_exports.value[k][i][1])

\* "fo-static" declared a weak export named "fo" and a strong one that is no
\* prefix of its name; after finalisation the strong one is what is left
C7_Witness ==
    /\ pc = "finalized" /\ ret = "returned"
    /\ heap[self].name = FO \o _static
    /\ ~heap[self].sections_run_exports.is_list
    /\ \E i \in DOMAIN Get(heap[self].sections_run_exports.value, "weak") :
          heap[self].sections_run_exports.value["weak"][i][1] = FO
    /\ heap[self].data_run_exports # NoneValue
    /\ DOMAIN heap[self].data_run_exports.value = {"strong"}

-----------------------------------------------------------------------------
(* Output.__init__ on the raw records                                      *)
(*                                                                         *)
(* d and parent are the caller's dicts; __init__ keeps references into     *)
(* them (self.data is d, the feature records are parent's, the requirement *)
(* lists of the shallow copy are d's lists), so a write through one of     *)
(* these references is a write to recipe.                                  *)

\* None
PyNone == <<"None">>

\* d.get(k, dflt)
GetOr(d, k, dflt) == IF k \in DOMAIN d THEN d[k] ELSE dflt

\* a.update(b)
Update(a, b) == b @@ a

\* lines 61-65, in call order
MergedSections == <<"build", "package", "app", "extra", "test">>

\* line 108 and line 119
RequirementSections == <<"build", "host", "run", "run_constrained">>

\* the overlay taken the other way round: the parent's keys win
set_section_parent_wins(parent, d, sname) ==
    Update(Update(EmptyDict, GetOr(d, sname, EmptyDict)), GetOr(parent, sname, EmptyDict))

\* lines 56-59
set_section(parent, d, sname) ==
    Update(Update(EmptyDict, GetOr(parent, sname, EmptyDict)), GetOr(d, sname, EmptyDict))

\* lines 68-70: a mapping is wrapped into a one-element list
SourceList(source) == IF source.is_list THEN source.value ELSE <<source.value>>

\* lines 72-75
RECURSIVE required_steps_from(_, _)
required_steps_from(sources, i) ==
    IF i > Len(sources) THEN <<>>
    ELSE (IF "step" \in DOMAIN sources[i] THEN <<sources[i]["step"]>> ELSE <<>>)
         \o required_steps_from(sources, i + 1)

\* line 79: {f["name"]: f for f in features}; the value is a reference, kept
\* as the record's index in parent["features"]; a repeated name keeps the last
feature_map(features) ==
    [n \in {features[i]["name"] : i \in DOMAIN features} |->
        SeqMax({i \in DOMAIN features : features[i]["name"] = n})]

\* iteration order of that dict: names by first occurrence
RECURSIVE feature_order(_, _)
feature_order(features, i) ==
    IF i > Len(features) THEN <<>>
    ELSE (IF \E j \in 1..(i - 1) : features[j]["name"] = features[i]["name"]
          THEN <<>> ELSE <<features[i]["name"]>>)
         \o feature_order(features, i + 1)

\* an activation that, once written, sticks to the feature record
activated_sticky(feat, fname, selected_features) ==
    IF "activated" \in DOMAIN feat THEN feat["activated"]
    ELSE IF fname \in DOMAIN selected_features THEN selected_features[fname]
    ELSE GetOr(feat, "default", FALSE)

\* lines 81-83
activated(feat, fname, selected_features) ==
    IF fname \in DOMAIN selected_features THEN selected_features[fname]
    ELSE GetOr(feat, "default", FALSE)

\* lines 80-85: feat["activated"] = activated, written into parent's records
Activate(features, selected_features) ==
    [i \in DOMAIN features |->
        IF feature_map(features)[features[i]["name"]] = i
        THEN Put(features[i], "activated",
                 activated(features[i], features[i]["name"], selected_features))
        ELSE features[i]]

\* lines 109-113 for one section of one activated feature. st.shared are the
\* lists self.requirements shares with d["requirements"] after copy.copy,
\* st.own the lists self.requirements alone holds
Extend(st, f, i) ==
    LET feat_req == GetOr(f["requirements"], i, <<>>)
    IN  IF i \in DOMAIN st.shared THEN [st EXCEPT !.shared[i] = @ \o feat_req]
        ELSE IF i \in DOMAIN st.own THEN [st EXCEPT !.own[i] = @ \o feat_req]
        ELSE IF Len(feat_req) > 0 THEN [st EXCEPT !.own = Put(@, i, feat_req)]
        ELSE st

\* lines 108-113
RECURSIVE ExtendSections(_, _, _)
ExtendSections(st, f, k) ==
    IF k > Len(RequirementSections) THEN st
    ELSE ExtendSections(Extend(st, f, RequirementSections[k]), f, k + 1)

\* lines 104-113
RECURSIVE ExtendFeatures(_, _, _, _)
ExtendFeatures(st, features, order, k) ==
    IF k > Len(order) THEN st
    ELSE LET f == features[feature_map(features)[order[k]]]
         IN  ExtendFeatures(
                 IF f["activated"] /\ DOMAIN GetOr(f, "requirements", EmptyDict) # {}
                 THEN ExtendSections(st, f, 1) ELSE st,
                 features, order, k + 1)

\* line 127: the truth value of sections["build"].get("run_exports"): a
\* missing key, None, an empty list and an empty mapping are all false
HasRunExports(build) ==
    /\ "run_exports" \in DOMAIN build
    /\ build["run_exports"].is_list \/ "None" \notin DOMAIN build["run_exports"].value
    /\ DOMAIN build["run_exports"].value # {}

STATIC == <<"s", "t", "a", "t", "i", "c">>

\* Output.__init__(d, config, parent, conda_build_config, selected_features),
\* with rec.d = d and rec.parent = parent (None and {} behave alike, lines
\* 33-34 and 36). Gives the records as the call leaves them, the Output when
\* the constructor returns, and what it raised otherwise.
__init__(rec, selected_features) ==
    LET parent == rec.parent
        d == Put(rec.d, "source",
                 GetOr(rec.d, "source", GetOr(parent, "source", RawDict(EmptyDict))))
        raised == [recipe |-> [rec EXCEPT !.d = d], ret |-> "KeyError", output |-> Unset]
    IN  IF "package" \in DOMAIN d /\ "version" \notin DOMAIN d["package"] THEN raised
        ELSE IF "build" \notin DOMAIN d THEN raised
        ELSE
        LET sections == [s \in Range(MergedSections) |-> set_section(parent, d, s)]
            sources == SourceList(d["source"])
            features == Activate(GetOr(parent, "features", <<>>), selected_features)
            fmap == feature_map(features)
            static_on == STATIC \in DOMAIN fmap /\ features[fmap[STATIC]]["activated"]
            st == ExtendFeatures(
                      [shared |-> GetOr(d, "requirements", EmptyDict), own |-> EmptyDict],
                      features, feature_order(features, 1), 1)
            texts == Update(st.shared, st.own)
            run_exports == IF HasRunExports(sections["build"])
                           THEN sections["build"]["run_exports"] ELSE NoRunExports
            d_after == IF "requirements" \in DOMAIN d
                       THEN Put(d, "requirements", st.shared) ELSE d
            parent_after == IF "features" \in DOMAIN parent
                            THEN Put(parent, "features", features) ELSE parent
        IN  [ recipe |-> [d |-> d_after, parent |-> parent_after],
              ret    |-> "returned",
              output |->
                [ name              |-> d["step"]["name"]
                                        \o (IF static_on THEN _static ELSE <<>>),
                  version           |-> IF "package" \in DOMAIN d
                                        THEN d["package"]["version"] ELSE PyNone,
                  build_string      |-> IF "package" \in DOMAIN d
                                        THEN GetOr(d["package"], "build_string", PyNone)
                                        ELSE PyNone,
                  build_number      |-> GetOr(d["build"], "number", <<"0">>),
                  noarch            |-> GetOr(d["build"], "noarch", FALSE),
                  is_package        |-> "package" \in DOMAIN d,
                  sections          |-> sections,
                  files             |-> GetOr(d, "files", PyNone),
                  source            |-> sources,
                  required_steps    |-> required_steps_from(sources, 1),
                  feature_map       |-> fmap,
                  selected_features |-> selected_features,
                  requirements      |-> [e \in Envs |-> Specs(GetOr(texts, e, <<>>))],
                  run_exports       |-> DeclaredRunExports(run_exports),
                  transactions      |-> EmptyDict ] ]

\* the caller may construct this many Outputs from the same records
MaxConstructions == 2

FEAT == <<"f">>

SectionKeyA == "a"
SectionKeyB == "b"

\* what parent and d hold for one merged section (nothing at all, or a mapping)
ParentParts(sname) ==
    { EmptyDict,
      sname :> (SectionKeyA :> <<"p">>),
      sname :> (SectionKeyA :> <<"p">> @@ SectionKeyB :> <<"p">>) }

ChildParts(sname) ==
    { EmptyDict,
      sname :> (SectionKeyA :> <<"c">>),
      sname :> (SectionKeyB :> <<"c">>) }

\* parent and d together, for one of package, app, extra, test
SectionPairs(sname) ==
    { [p |-> EmptyDict, c |-> EmptyDict],
      [p |-> sname :> (SectionKeyA :> <<"p">> @@ SectionKeyB :> <<"p">>),
       c |-> sname :> (SectionKeyA :> <<"c">>)],
      [p |-> sname :> (SectionKeyA :> <<"p">>),
       c |-> sname :> (SectionKeyB :> <<"c">>)] }

\* d["build"]: missing, empty, or with keys; run exports that are None or a list
BuildParts ==
    { EmptyDict,
      "build" :> EmptyDict,
      "build" :> ("run_exports" :> NoneValue),
      "build" :> (SectionKeyA :> <<"c">>),
      "build" :> (SectionKeyB :> <<"c">> @@ "run_exports" :> RawList(<< <<LB>> >>)) }

ParentBuildParts ==
    ParentParts("build")
        \cup { "build" :> (SectionKeyA :> <<"p">>
                           @@ "run_exports" :> RawDict("strong" :> << <<ZZ>> >>)) }

Step == "step" :> [name |-> <<"o">>]

WithVersion(part) ==
    IF "package" \in DOMAIN part
    THEN "package" :> (part["package"] @@ "version" :> <<"1", ".", "0">>)
    ELSE part

\* records that differ in their sections, without features
SectionRecipes ==
    { [ d      |-> Step @@ b @@ WithVersion(k.c) @@ a.c @@ x.c @@ t.c,
        parent |-> pb @@ k.p @@ a.p @@ x.p @@ t.p ] :
        b \in BuildParts, pb \in ParentBuildParts, k \in SectionPairs("package"),
        a \in SectionPairs("app"), x \in SectionPairs("extra"), t \in SectionPairs("test") }

Feature(name, requirements) == "name" :> name @@ "requirements" :> requirements

\* parent["features"]
FeatureLists ==
    { <<>>,
      << Feature(FEAT, "build" :> << <<ZZ>> >>) @@ "default" :> TRUE >>,
      << Feature(FEAT, "host" :> << <<ZZ>> >> @@ "run" :> << <<LB>> >>) >>,
      << "name" :> STATIC @@ "default" :> FALSE,
         Feature(FEAT, "build" :> << <<ZZ>> >>) @@ "default" :> TRUE >>,
      << "name" :> FEAT @@ "default" :> TRUE,
         Feature(FEAT, "run" :> << <<ZZ>> >>) @@ "default" :> FALSE >> }

ParentFeatureParts == { EmptyDict } \cup { "features" :> f : f \in FeatureLists }

\* d["requirements"]
RequirementParts ==
    { EmptyDict,
      "requirements" :> EmptyDict,
      "requirements" :> ("build" :> << <<LB>> >>),
      "requirements" :> ("build" :> << <<LB>> >> @@ "host" :> << <<PY>> >>
                         @@ "run" :> << <<LB, GE1>> >>) }

\* d["source"] and parent["source"]: a mapping or a list of mappings
SourceParts ==
    { EmptyDict,
      "source" :> RawDict("url" :> <<"u">>),
      "source" :> RawList(<< "step" :> <<"u", "p">>, "url" :> <<"u">> >>) }

ParentSourceParts == { EmptyDict, "source" :> RawDict("step" :> <<"u", "p">>) }

\* records that differ in features, requirements and source
FeatureRecipes ==
    { [ d      |-> Step @@ ("build" :> EmptyDict) @@ r @@ s,
        parent |-> f @@ ps ] :
        r \in RequirementParts, s \in SourceParts,
        f \in ParentFeatureParts, ps \in ParentSourceParts }

\* the caller's overrides; None and {} are the same to line 36
SelectedFeatures ==
    { EmptyDict,
      FEAT :> TRUE,
      FEAT :> FALSE,
      STATIC :> TRUE,
      STATIC :> TRUE @@ FEAT :> FALSE }

InitRecipe ==
    /\ recipe \in SectionRecipes \cup FeatureRecipes
    /\ heap = <<>>
    /\ pkg_cache = EmptyDict
    /\ pc = "records"
    /\ cur = "build"
    /\ downloaded = "unset"
    /\ calls = <<>>
    /\ entry = EmptyDict
    /\ ret = "running"
    /\ ncalls = 0

\* Output(d, config, parent, selected_features=...): heap grows by the Output
\* when the constructor returns
Construct ==
    /\ pc = "records"
    /\ ncalls < MaxConstructions
    /\ \E selected_features \in SelectedFeatures :
          LET r == __init__(recipe, selected_features)
          IN  /\ recipe' = r.recipe
              /\ heap' = IF r.ret = "returned" THEN Append(heap, r.output) ELSE heap
              /\ ret' = r.ret
    /\ ncalls' = ncalls + 1
    /\ UNCHANGED <<pkg_cache, pc, cur, downloaded, calls, entry>>

NextRecipe == Construct

SpecRecipe == InitRecipe /\ [][NextRecipe]_vars

-----------------------------------------------------------------------------
(* Properties of construction                                              *)

\* C11: construction has no side effect beyond the constructed object: a
\* call of the constructor leaves d and parent as they were, and two Outputs
\* constructed from the same d, parent and selected_features have the same
\* requirements.
C11_ConstructionIsPure ==
    [][/\ recipe' = recipe
       /\ \A i \in DOMAIN heap' : \A j \in DOMAIN heap' :
              heap'[i].selected_features = heap'[j].selected_features
                  => heap'[i].requirements = heap'[j].requirements]_vars

\* C12: merge invariant. In each of the merged sections build, package, app,
\* extra and test of a constructed Output, every key of the parent's section
\* that the child's record lacks has the parent's value, and every key of the
\* child's record has the child's value.
C12_MergeInvariant ==
    \A i \in DOMAIN heap : \A s \in Range(MergedSections) :
        LET p == GetOr(recipe.parent, s, EmptyDict)
            c == GetOr(recipe.d, s, EmptyDict)
            m == heap[i].sections[s]
        IN  /\ \A k \in DOMAIN p \ DOMAIN c : k \in DOMAIN m /\ m[k] = p[k]
            /\ \A k \in DOMAIN c : k \in DOMAIN m /\ m[k] = c[k]

\* an Output whose parent gives a and b for a section and whose own record
\* gives a only: a is the child's, b the parent's
C12_Witness ==
    \E i \in DOMAIN heap : \E s \in Range(MergedSections) :
        /\ s \in DOMAIN recipe.parent /\ s \in DOMAIN recipe.d
        /\ {SectionKeyA, SectionKeyB} \subseteq DOMAIN recipe.parent[s]
        /\ SectionKeyA \in DOMAIN recipe.d[s]
        /\ SectionKeyB \notin DOMAIN recipe.d[s]
        /\ heap[i].sections[s][SectionKeyA] = <<"c">>
        /\ heap[i].sections[s][SectionKeyB] = <<"p">>

\* the feature record an Output's feature_map holds for a name
FeatureOf(rec, o, n) == rec.parent["features"][o.feature_map[n]]

\* C13: feature activation determinism. A construction leaves every feature
\* of the new Output's feature_map with activated = selected_features[name]
\* when the name is in selected_features and the declared default (False when
\* none is declared) otherwise; it changes no declared default; and a
\* construction with the same selected_features as the one before it leaves
\* the feature records exactly as that one left them.
C13_ActivationDeterminism ==
    [][\A i \in DOMAIN heap' \ DOMAIN heap :
          LET o == heap'[i]
          IN  /\ \A n \in DOMAIN o.feature_map :
                    /\ FeatureOf(recipe', o, n)["activated"] =
                          IF n \in DOMAIN o.selected_features
                          THEN o.selected_features[n]
                          ELSE GetOr(FeatureOf(recipe, o, n), "default", FALSE)
                    /\ GetOr(FeatureOf(recipe', o, n), "default", PyNone) =
                          GetOr(FeatureOf(recipe, o, n), "default", PyNone)
              /\ (i > 1 /\ heap[i - 1].selected_features = o.selected_features)
                    => recipe'.parent = recipe.parent]_vars

\* a feature declared on by default was first overridden to off by the
\* caller, and a later construction without override has it on again
C13_Witness ==
    /\ Len(heap) = 2
    /\ heap[1].selected_features = (FEAT :> FALSE)
    /\ heap[2].selected_features = EmptyDict
    /\ FEAT \in DOMAIN heap[2].feature_map
    /\ GetOr(FeatureOf(recipe, heap[2], FEAT), "default", FALSE)
    /\ FeatureOf(recipe, heap[2], FEAT)["activated"]

-----------------------------------------------------------------------------
(* Properties of the copy apply_variant returns                            *)

\* the step is a call of apply_variant that returned: heap'[Len(heap')] is the copy
Returned == ncalls' = ncalls + 1 /\ ret' = "returned" /\ Len(heap') = Len(heap) + 1

GccLinux64 == GCC \o <<"_">> \o LINUX64

\* C14: compiler injection. In the copy apply_variant returns, every build
\* Spec whose name starts with COMPILER_ has final = <compiler>_<target_platform>,
\* <compiler> being the variant's <lang>_compiler when given and the native
\* compiler otherwise, followed by " <version>*" exactly when the variant
\* gives <lang>_compiler_version; it is flagged from_pinnings.
C14_CompilerInjection ==
    [][Returned =>
        LET copied  == heap'[Len(heap')]
            variant == copied.variant
        IN  \A idx \in DOMAIN heap[self].requirements["build"] :
              LET r    == heap[self].requirements["build"][idx]
                  lang == Lower(r.splitted[2])
                  base == IF (lang \o _compiler) \in DOMAIN variant
                          THEN variant[lang \o _compiler]
                          ELSE native_compiler(lang, heap[self].config_variant)
                  compiler == base \o <<"_">> \o variant[target_platform]
              IN  StartsWith(r.name, COMPILER_) =>
                    /\ copied.requirements["build"][idx].from_pinnings
                    /\ copied.requirements["build"][idx].final =
                          IF (lang \o _compiler_version) \in DOMAIN variant
                          THEN <<compiler, variant[lang \o _compiler_version] \o <<"*">> >>
                          ELSE <<compiler>>]_vars

\* the two copies of the example: {c_compiler: gcc, c_compiler_version: 11,
\* target_platform: linux-64} gave "gcc_linux-64 11*", and a variant that
\* names clang and no version gave "clang_linux-64"
C14_Witness ==
    /\ Len(heap) = 3
    /\ \E idx \in DOMAIN heap[self].requirements["build"] :
          /\ heap[self].requirements["build"][idx].name = COMPILER_C
          /\ (<<"c">> \o _compiler) \in DOMAIN heap[2].variant
          /\ heap[2].variant[<<"c">> \o _compiler] = GCC
          /\ heap[2].requirements["build"][idx].final = <<GccLinux64, <<"1", "1", "*">> >>
          /\ (<<"c">> \o _compiler_version) \notin DOMAIN heap[3].variant
          /\ heap[3].requirements["build"][idx].final = <<CLANG \o <<"_">> \o LINUX64>>

\* C18: variant pinning touches build and host only. In the copy
\* apply_variant returns, a build or host Spec whose name, with hyphens turned
\* into underscores, is a key of the variant is replaced at its index by the
\* Spec "<name> <value>", flagged from_pinnings and with the template Spec's
\* is_inherited; a build or host Spec whose name is no key and that is no
\* COMPILER_ Spec equals the template's; run and run_constrained equal the
\* template's lists, variant key or not.
C18_PinsBuildAndHostOnly ==
    [][Returned =>
        LET copied  == heap'[Len(heap')]
            variant == copied.variant
        IN  /\ \A env \in {"build", "host"} :
                  /\ Len(copied.requirements[env]) = Len(heap[self].requirements[env])
                  /\ \A idx \in DOMAIN heap[self].requirements[env] :
                        LET r == heap[self].requirements[env][idx]
                            c == copied.requirements[env][idx]
                            vname == Replace(r.name, "-", "_")
                        IN  IF StartsWith(r.name, COMPILER_) THEN TRUE
                            ELSE IF vname \in DOMAIN variant
                            THEN /\ c.final = <<r.name, variant[vname]>>
                                 /\ c.name = r.name
                                 /\ c.from_pinnings
                                 /\ c.is_inherited = r.is_inherited
                                 /\ c = [CondaBuildSpec(<<r.name, variant[vname]>>) EXCEPT
                                            !.from_pinnings = TRUE,
                                            !.is_inherited = r.is_inherited]
                            ELSE c = r
            /\ copied.requirements["run"] = heap[self].requirements["run"]
            /\ copied.requirements["run_constrained"] =
                  heap[self].requirements["run_constrained"]]_vars

\* a copy of a template with inherited Specs and l-b in host and in run, for
\* a variant with the key l_b: host's l-b is pinned and still inherited, an
\* unkeyed host Spec and run's l-b are the template's
C18_Witness ==
    /\ Len(heap) >= 2
    /\ L_B \in DOMAIN heap[2].variant
    /\ PY \notin DOMAIN heap[2].variant
    /\ \E i \in DOMAIN heap[self].requirements["host"] :
          /\ heap[self].requirements["host"][i].name = LB
          /\ heap[self].requirements["host"][i].is_inherited
          /\ heap[2].requirements["host"][i].final = <<LB, heap[2].variant[L_B]>>
          /\ heap[2].requirements["host"][i].is_inherited
    /\ \E i \in DOMAIN heap[self].requirements["host"] :
          /\ heap[self].requirements["host"][i].name = PY
          /\ heap[2].requirements["host"][i] = heap[self].requirements["host"][i]
    /\ \E i \in DOMAIN heap[self].requirements["run"] :
          /\ heap[self].requirements["run"][i].name = LB
          /\ heap[2].requirements["run"][i] = heap[self].requirements["run"][i]

-----------------------------------------------------------------------------
(* Order of the stages of finalize_solve                                   *)

\* position of an environment in lines 593-595
Stage(env) == CASE env = "build" -> 1 [] env = "host" -> 2 [] OTHER -> 3

\* the environments whose solve has been done: their transaction is recorded
Solved == DOMAIN heap[self].transactions

\* C15: stage ordering. The solve of an environment is recorded only after
\* the solves of no later environment and with the exports of the latest
\* solved environment already propagated (build's before the host solve,
\* host's before the run solve); a propagation is of build or host, never
\* follows the run solve, makes its insertions only into environments that
\* are not solved yet and leaves the list of every solved environment as it
\* was.
C15_StageOrdering ==
    [][/\ \A e \in DOMAIN heap'[self].transactions \ Solved :
              /\ \A e0 \in Solved : Stage(e0) < Stage(e)
              /\ IF Solved = {} THEN calls = <<>>
                 ELSE /\ Len(calls) = 1
                      /\ \A e0 \in Solved : Stage(e0) <= Stage(calls[1].env)
                      /\ calls[1].env \in Solved
       /\ (pc = "propagate" \/ calls' \notin {calls, <<>>}) =>
              /\ "run" \notin Solved
              /\ cur \in Solved /\ cur \in {"build", "host"}
              /\ calls'[1].env = cur
              /\ \A k \in DOMAIN calls'[1].made :
                    /\ calls'[1].made[k][1] \notin Solved
                    /\ Stage(calls'[1].made[k][1]) > Stage(cur)
              /\ \A e \in Solved :
                    heap'[self].requirements[e] = heap[self].requirements[e]]_vars

\* finalize_solve has returned after three solves; an export of build sits
\* in host and an export sits in run, each bound by the solve that followed
\* its propagation
C15_Witness ==
    /\ pc = "done"
    /\ Solved = {"build", "host", "run"}
    /\ \E i \in DOMAIN heap[self].requirements["host"] :
          /\ heap[self].requirements["host"][i].from_run_export
          /\ HasFinalVersion(heap[self].requirements["host"][i])
    /\ \E i \in DOMAIN heap[self].requirements["run"] :
          /\ heap[self].requirements["run"][i].from_run_export
          /\ HasFinalVersion(heap[self].requirements["run"][i])

-----------------------------------------------------------------------------
(* The insertion of one export                                             *)

\* the requirement lists before the k-th append_or_replace of a propagation
BeforeCall(reqs, cs, k) == ApplyCalls(reqs, SubSeq(cs, 1, k - 1))

\* C16: insert-by-name rule, for every append_or_replace call a propagation
\* makes. If the target list holds a simple Spec whose resolved name is the
\* export's name, the first such Spec is replaced at its index, the list
\* keeps its length and every other entry; otherwise the export is appended
\* at the end. The inserted Spec is the export's, flagged from_run_export; no
\* other list changes.
C16_InsertByName ==
    [][pc = "propagate" =>
        LET cs == CallsOf(heap[self], cur, pkg_cache)
        IN  /\ heap'[self].requirements = BeforeCall(heap[self].requirements, cs, Len(cs) + 1)
            /\ \A k \in DOMAIN cs :
                  LET target == cs[k][1]
                      before == BeforeCall(heap[self].requirements, cs, k)
                      after  == BeforeCall(heap[self].requirements, cs, k + 1)
                      old    == before[target]
                      new    == after[target]
                      hits   == {i \in DOMAIN old :
                                    final_name(old[i]) = cs[k][2][1] /\ old[i].is_simple}
                      at     == IF hits = {} THEN Len(old) + 1
                                ELSE CHOOSE i \in hits : \A j \in hits : i <= j
                  IN  /\ \A e \in Envs \ {target} : after[e] = before[e]
                      /\ Len(new) = IF hits = {} THEN Len(old) + 1 ELSE Len(old)
                      /\ \A i \in DOMAIN old : i # at => new[i] = old[i]
                      /\ new[at].from_run_export
                      /\ new[at].raw = cs[k][2]
                      /\ new[at].final = cs[k][2]]_vars

\* a propagation has replaced an authored simple Spec that was not the first
\* entry of its list, which kept its length, and has appended to a list that
\* held a constrained Spec of the export's name
C16_Witness ==
    /\ pc = "solve" /\ Len(calls) = 1
    /\ \E k \in DOMAIN calls[1].made :
          LET e == calls[1].made[k][1]
          IN  /\ Len(heap[self].requirements[e]) = Len(entry[e])
              /\ \E i \in DOMAIN entry[e] :
                    /\ i > 1
                    /\ entry[e][i].is_simple /\ ~entry[e][i].from_run_export
                    /\ final_name(entry[e][i]) = calls[1].made[k][2][1]
                    /\ heap[self].requirements[e][i].from_run_export
    /\ \E k \in DOMAIN calls[1].made :
          LET e == calls[1].made[k][1]
          IN  /\ Len(heap[self].requirements[e]) > Len(entry[e])
              /\ \E i \in DOMAIN entry[e] :
                    /\ ~entry[e][i].is_simple
                    /\ final_name(entry[e][i]) = calls[1].made[k][2][1]
                    /\ heap[self].requirements[e][i] = entry[e][i]

-----------------------------------------------------------------------------
(* The requirement list after a solve                                      *)

\* C17: the requirement list mirrors the solver result. When _solve_env(env)
\* records its transaction, the resolved names of requirements[env] are the
\* names of the packages the solver returned; every Spec that was in the list
\* and whose resolved name is a returned name has that package's
\* final_version and channel; every returned name without such a Spec is
\* appended once, as a transitive Spec bound to the package; the Specs that
\* were in the list are still there, in the same order.
C17_MirrorsSolverResult ==
    [][\A e \in DOMAIN heap'[self].transactions \ Solved :
          LET old  == heap[self].requirements[e]
              new  == heap'[self].requirements[e]
              pkgs == heap'[self].transactions[e].transaction
          IN  /\ {final_name(new[i]) : i \in DOMAIN new} = {pkgs[k].name : k \in DOMAIN pkgs}
              /\ Len(new) >= Len(old)
              /\ \A i \in DOMAIN old :
                    /\ new[i].raw = old[i].raw
                    /\ new[i].is_transitive_dependency = old[i].is_transitive_dependency
              /\ \A k \in DOMAIN pkgs :
                    LET p == pkgs[k]
                        matching == {i \in DOMAIN old : final_name(new[i]) = p.name}
                    IN  IF matching # {}
                        THEN \A i \in matching :
                                /\ new[i].final_version = <<p.version, p.build_string>>
                                /\ new[i].channel = p.channel
                        ELSE Cardinality({j \in DOMAIN new : final_name(new[j]) = p.name}) = 1
                             /\ \E j \in DOMAIN new \ DOMAIN old :
                                   /\ new[j].raw = <<p.name>>
                                   /\ new[j].is_transitive_dependency
                                   /\ new[j].final_version = <<p.version, p.build_string>>
                                   /\ new[j].channel = p.channel]_vars

-----------------------------------------------------------------------------
(* The Specs a propagation takes exports from                              *)

\* lst without the entries at the indexes skipped
RECURSIVE Dropped(_, _, _)
Dropped(lst, skipped, i) ==
    IF i > Len(lst) THEN <<>>
    ELSE (IF i \in skipped THEN <<>> ELSE <<lst[i]>>) \o Dropped(lst, skipped, i + 1)

\* the Output with the Specs at the indexes skipped taken out of env
Without(o, env, skipped) ==
    [o EXCEPT !.requirements[env] = Dropped(@, skipped, 1)]

\* the step is propagate_run_exports(cur, cache), and it makes exactly the
\* insertions it would make were the Specs at the indexes skipped not in env
PropagatesAsWithout(skipped) ==
    pc = "propagate" =>
        LET others == CallsOf(Without(heap[self], cur, skipped), cur, pkg_cache)
        IN  /\ calls' = << [env |-> cur, made |-> others] >>
            /\ heap'[self].requirements = ApplyCalls(heap[self].requirements, others)
            /\ pc' = "solve" /\ ret' = ret

\* C19 as claimed: a Spec that is transitive or ignored, and a resolved Spec
\* whose package has no run_exports.json, cause no insertion and no error,
\* and the exports of the other Specs are propagated.
C19_SilentSources ==
    [][PropagatesAsWithout(
          {i \in DOMAIN heap[self].requirements[cur] :
              LET s == heap[self].requirements[cur][i]
              IN  \/ s.is_transitive_dependency
                  \/ s.name \in heap[self].ignore_run_exports
                  \/ HasFinalVersion(s) /\ final_triplet(s) \notin DOMAIN pkg_cache})]_vars

\* C19, amended: a Spec that is transitive or ignored causes no insertion
\* whatever its package declares; a resolved Spec that pin_run_as_build does
\* not name and whose package has no run_exports.json causes no insertion and
\* no error; the exports of the other Specs are propagated. (A Spec named in
\* pin_run_as_build contributes its synthesized weak export, file or not.)
C19_SilentUnlessPinned ==
    [][PropagatesAsWithout(
          {i \in DOMAIN heap[self].requirements[cur] :
              LET s == heap[self].requirements[cur][i]
              IN  \/ s.is_transitive_dependency
                  \/ s.name \in heap[self].ignore_run_exports
                  \/ /\ HasFinalVersion(s)
                     /\ ~IsPinned(heap[self], s)
                     /\ final_triplet(s) \notin DOMAIN pkg_cache})]_vars

\* a propagation has been made from a list with a transitive Spec whose
\* package declares exports and an authored Spec whose exports were inserted
C19_Witness ==
    /\ pc = "solve" /\ Len(calls) = 1 /\ calls[1].made # <<>>
    /\ \E i \in DOMAIN heap[self].requirements[calls[1].env] :
          LET s == heap[self].requirements[calls[1].env][i]
          IN  /\ s.is_transitive_dependency
              /\ final_triplet(s) \in DOMAIN pkg_cache
              /\ DOMAIN pkg_cache[final_triplet(s)] # {}
    /\ \E i \in DOMAIN heap[self].requirements[calls[1].env] :
          LET s == heap[self].requirements[calls[1].env][i]
          IN  /\ ~s.is_transitive_dependency
              /\ final_triplet(s) \in DOMAIN pkg_cache

-----------------------------------------------------------------------------
(* inherit_requirements                                                    *)

\* lines 168-172, from the k-th required step on; steps maps a step name to
\* its Output
RECURSIVE InheritFrom(_, _, _, _)
InheritFrom(h, me, steps, k) ==
    IF k > Len(h[me].required_steps) THEN [heap |-> h, ret |-> "returned"]
    ELSE LET s == h[me].required_steps[k]
         IN  IF s \notin DOMAIN steps THEN [heap |-> h, ret |-> "KeyError"]
             ELSE LET h1 == [h EXCEPT ![me].requirements["build"] =
                                merge_requirements(h[steps[s]].requirements["build"], @)]
                      h2 == [h1 EXCEPT ![me].requirements["host"] =
                                merge_requirements(h1[steps[s]].requirements["host"], @)]
                  IN  InheritFrom(h2, me, steps, k + 1)

inherit_requirements(h, me, steps) == InheritFrom(h, me, steps, 1)

\* the caller may call inherit_requirements this many times
MaxInherits == 2

U1 == <<"u", "1">>
U2 == <<"u", "2">>

\* an Output with its required_steps (lines 72-75)
Requiring(o, required_steps) == [required_steps |-> required_steps] @@ o

Step1Builds == { <<>>, << <<LB>> >>, << <<ZZ>>, <<LB>> >>, << <<ZZ, GE1>>, <<ZZ>> >> }
Step1Hosts == { <<>>, << <<PY>> >> }
Step2Builds == { <<>>, << <<ZZ>> >>, << <<LB, GE2>> >> }
Step2Hosts == { <<>>, << <<PY, GE1>> >> }
OwnBuilds == { <<>>, << <<LB>> >>, << <<PY>>, <<LB, GE1>> >> }
OwnHosts == { <<>>, << <<LB>> >> }
OwnRuns == { <<>>, << <<ZZ>> >> }

RequiredSteps == { <<>>, <<U1>>, <<U1, U2>>, <<U2, U1>>, << <<"o">> >>, <<U2>> }

\* the steps handed to inherit_requirements: all of them, or without u2
StepMaps ==
    { (<<"o">> :> 1) @@ (U1 :> 2) @@ (U2 :> 3),
      (<<"o">> :> 1) @@ (U1 :> 2) }

Lists(build, host, run) ==
    [e \in Envs |-> CASE e = "build" -> build [] e = "host" -> host
                      [] e = "run" -> run [] OTHER -> <<>>]

InitInherit ==
    /\ \E b \in OwnBuilds, h \in OwnHosts, r \in OwnRuns, q \in RequiredSteps,
          b1 \in Step1Builds, h1 \in Step1Hosts, b2 \in Step2Builds, h2 \in Step2Hosts :
          heap = << Requiring(Output(<<"o">>, FALSE, Lists(b, h, r),
                                     NoRunExports, {}, EmptyDict, EmptyDict), q),
                    Requiring(Output(U1, FALSE, Lists(b1, h1, <<>>),
                                     NoRunExports, {}, EmptyDict, EmptyDict), <<>>),
                    Requiring(Output(U2, FALSE, Lists(b2, h2, << <<LB>> >>),
                                     NoRunExports, {}, EmptyDict, EmptyDict), <<>>) >>
    /\ pkg_cache = EmptyDict
    /\ pc = "steps"
    /\ cur = "build"
    /\ downloaded = "unset"
    /\ calls = <<>>
    /\ entry = heap[self].requirements
    /\ ret = "running"
    /\ ncalls = 0
    /\ recipe = EmptyDict

\* self.inherit_requirements(steps)
InheritRequirements ==
    /\ pc = "steps"
    /\ ncalls < MaxInherits
    /\ \E steps \in StepMaps :
          LET r == inherit_requirements(heap, self, steps)
          IN  /\ heap' = r.heap
              /\ ret' = r.ret
    /\ ncalls' = ncalls + 1
    /\ UNCHANGED <<recipe, pkg_cache, pc, cur, downloaded, calls, entry>>

NextInherit == InheritRequirements

SpecInherit == InitInherit /\ [][NextInherit]_vars

\* the names (r.name) of a list
RawNames(lst) == {lst[i].name : i \in DOMAIN lst}

\* the Specs of lst named n, in order
OfName(lst, n) == LET Is(r) == r.name = n IN SelectSeq(lst, Is)

Flagged(lst) == [i \in DOMAIN lst |-> [lst[i] EXCEPT !.is_inherited = TRUE]]

\* the env lists of the required steps of Output o, in the order of
\* o.required_steps; a step is the Output of that name
UpstreamLists(h, o, env) ==
    [k \in DOMAIN o.required_steps |->
        h[CHOOSE i \in DOMAIN h : h[i].name = o.required_steps[k]].requirements[env]]

\* new is old followed by flagged copies of upstream Specs whose names old
\* lacks, and the name of every upstream Spec is in new
AppendsAbsent(old, new, ups) ==
    /\ Len(new) >= Len(old)
    /\ SubSeq(new, 1, Len(old)) = old
    /\ \A j \in (Len(old) + 1)..Len(new) :
          /\ new[j].is_inherited
          /\ new[j].name \notin RawNames(old)
          /\ \E k \in DOMAIN ups : \E i \in DOMAIN ups[k] :
                new[j] = [ups[k][i] EXCEPT !.is_inherited = TRUE]
    /\ \A k \in DOMAIN ups : RawNames(ups[k]) \subseteq RawNames(new)

\* the step is a call of inherit_requirements that returned and changed
\* nothing but the build and host lists of self
ReturnedInherit ==
    /\ pc = "steps" /\ ncalls' = ncalls + 1 /\ ret' = "returned"
    /\ Len(heap') = Len(heap)
    /\ \A i \in DOMAIN heap : i # self => heap'[i] = heap[i]
    /\ heap'[self] = [heap[self] EXCEPT
                        !.requirements["build"] = heap'[self].requirements["build"],
                        !.requirements["host"] = heap'[self].requirements["host"]]

\* C20 as claimed: inherit_requirements appends to build (resp. host) a
\* flagged copy of each upstream build (resp. host) Spec whose name the list
\* lacks, leaves the Specs present where they are, changes neither the
\* upstream steps nor run and run_constrained, and afterwards each inherited
\* name occurs once in the list.
C20_InheritsOnce ==
    [][(pc = "steps" /\ ncalls' = ncalls + 1 /\ ret' = "returned") =>
        /\ ReturnedInherit
        /\ \A env \in {"build", "host"} :
              LET old == heap[self].requirements[env]
                  new == heap'[self].requirements[env]
              IN  /\ AppendsAbsent(old, new, UpstreamLists(heap, heap[self], env))
                  /\ \A j \in (Len(old) + 1)..Len(new) :
                        Len(OfName(new, new[j].name)) = 1]_vars

\* C20, amended: as above, but an inherited name occurs in the list as often
\* as in the list of the first required step that has it: the inherited
\* Specs of a name are the flagged copies of that step's Specs of the name,
\* in their order (once when that step names it once).
C20_InheritsFirstStep ==
    [][(pc = "steps" /\ ncalls' = ncalls + 1 /\ ret' = "returned") =>
        /\ ReturnedInherit
        /\ \A env \in {"build", "host"} :
              LET old == heap[self].requirements[env]
                  new == heap'[self].requirements[env]
                  ups == UpstreamLists(heap, heap[self], env)
              IN  /\ AppendsAbsent(old, new, ups)
                  /\ \A n \in RawNames(new) \ RawNames(old) :
                        LET first == CHOOSE k \in DOMAIN ups :
                                        /\ n \in RawNames(ups[k])
                                        /\ \A k0 \in 1..(k - 1) : n \notin RawNames(ups[k0])
                        IN  OfName(new, n) = Flagged(OfName(ups[first], n))]_vars

\* a call has returned for an Output that requires u1 and holds l-b itself:
\* its l-b is where it was, unflagged, u1's l-b was not copied, and u1's z
\* follows as an inherited copy
C20_Witness ==
    /\ ncalls > 0 /\ ret = "returned"
    /\ U1 \in Range(heap[self].required_steps)
    /\ LB \in RawNames(heap[2].requirements["build"])
    /\ ZZ \in RawNames(heap[2].requirements["build"])
    /\ Len(heap[self].requirements["build"]) > 1
    /\ heap[self].requirements["build"][1].name = LB
    /\ ~heap[self].requirements["build"][1].is_inherited
    /\ Len(OfName(heap[self].requirements["build"], LB)) = 1
    /\ \E j \in DOMAIN heap[self].requirements["build"] :
          /\ heap[self].requirements["build"][j].name = ZZ
          /\ heap[self].requirements["build"][j].is_inherited
    /\ \A i \in DOMAIN heap[2].requirements["build"] :
          ~heap[2].requirements["build"][i].is_inherited

-----------------------------------------------------------------------------
(* What self-export suppression leaves in place                            *)

\* the entries of a strength list whose name is no prefix of the Output's name
Kept(name, lst) == {i \in DOMAIN lst : ~StartsWith(name, lst[i].name)}

\* C21: self-export suppression drops only the matching entry. When
\* set_final_build_id returns for an Output whose name ends in "-static",
\* every export entry whose name is no prefix of the Output's name, whatever
\* its strength and whatever else its strength list holds, is still in
\* self.run_exports and is written to data["build"]["run_exports"].
C21_DropsOnlyMatching ==
    [][(pc = "declared" /\ ret' = "returned" /\ EndsWith(heap[self].name, _static)) =>
          \A k \in RUN_EXPORTS_TYPES :
              LET old == heap[self].run_exports[k]
                  new == heap'[self].run_exports[k]
              IN  \A i \in Kept(heap[self].name, old) :
                     /\ \E j \in DOMAIN new : new[j].raw = old[i].raw
                     /\ ~heap'[self].data_run_exports.is_list
                     /\ k \in DOMAIN heap'[self].data_run_exports.value
                     /\ \E j \in DOMAIN heap'[self].data_run_exports.value[k] :
                            heap'[self].data_run_exports.value[k][j][1] = old[i].name]_vars

-----------------------------------------------------------------------------------------------------------------------------------------------------
(* Propagated and discovered names                                         *)

\* a solve adds at most this many packages on its own
MaxDiscovered == 2

\* finalize_solve is called at most this many times on one Output
MaxFinalizes == 2

DiscoverCaches ==
    { CachesOf([n \in {PY, LB} |-> NoFile]),
      CachesOf([n \in {PY, LB} |->
                  IF n = PY THEN ("strong" :> << <<LB>> >>) @@ ("weak" :> << <<ZZ, GE1>> >>)
                  ELSE NoFile]) }

InitDiscover ==
    /\ \E b \in {<<>>, << <<PY>> >>}, h \in {<< <<PY>> >>, << <<LB, GE1>> >>},
          r \in {<<>>, << <<LB>> >>} :
          heap = << Output(<<"o">>, FALSE,
                           [e \in Envs |-> CASE e = "build" -> b [] e = "host" -> h
                                             [] e = "run" -> r [] OTHER -> <<>>],
                           NoRunExports, {}, EmptyDict, EmptyDict) >>
    /\ pkg_cache \in DiscoverCaches
    /\ pc = "solve"
    /\ cur = "build"
    /\ downloaded = "unset"
    /\ calls = <<>>
    /\ entry = heap[self].requirements
    /\ ret = "running"
    /\ ncalls = 1
    /\ recipe = EmptyDict

Discover == SolveEnvUpTo(MaxDiscovered)

\* lines 591-593: finalize_solve is called again on the Output it has finalized
FinalizeAgain ==
    /\ pc = "done"
    /\ ncalls < MaxFinalizes
    /\ ncalls' = ncalls + 1
    /\ pc' = "solve"
    /\ cur' = "build"
    /\ ret' = "running"
    /\ downloaded' = "unset"
    /\ calls' = <<>>
    /\ entry' = heap[self].requirements
    /\ UNCHANGED <<heap, recipe, pkg_cache>>

NextDiscover == Discover \/ Fetch \/ Propagate \/ Backfill \/ FinalizeAgain

SpecDiscover == InitDiscover /\ [][NextDiscover]_vars

\* no transitive Spec of the list has the resolved name of another Spec of it
NoShadow(lst) ==
    \A i, j \in DOMAIN lst :
        (i # j /\ lst[j].is_transitive_dependency) => final_name(lst[i]) # final_name(lst[j])

\* the Specs a solve appended to a list
Discovered(old, new) == {j \in DOMAIN new \ DOMAIN old : new[j].is_transitive_dependency}

\* C22: first write wins between propagation and transitive discovery. When
\* _solve_env(env) has called the solver, no name that was in
\* requirements[env] as a non-transitive Spec (authored, or inserted by the
\* propagation of an earlier environment) is appended as a transitive Spec;
\* and after every step of finalize_solve, its end included, no requirement
\* list holds a transitive Spec whose resolved name is that of another Spec
\* of the list, transitive or not.
C22_FirstWriteWins ==
    [][/\ (pc = "solve" /\ pc' = "fetch") =>
             LET old == heap[self].requirements[cur]
                 new == heap'[self].requirements[cur]
             IN  \A i \in DOMAIN old : \A j \in Discovered(old, new) :
                     ~old[i].is_transitive_dependency =>
                         /\ new[j].name # old[i].name
                         /\ new[j].name # final_name(new[i])
       /\ \A e \in Envs : NoShadow(heap'[self].requirements[e])]_vars

\* finalize_solve has returned for the second time; a build solve discovered
\* two packages, the build propagation put a Spec named like one of them
\* into host, and the host solve bound that Spec instead of appending one
C22_Witness ==
    /\ pc = "done" /\ ret = "returned" /\ ncalls = 2
    /\ \E i, k \in DOMAIN heap[self].requirements["build"] :
          /\ i # k
          /\ heap[self].requirements["build"][i].is_transitive_dependency
          /\ heap[self].requirements["build"][k].is_transitive_dependency
          /\ \E j \in DOMAIN heap[self].requirements["host"] :
                /\ final_name(heap[self].requirements["host"][j]) =
                       final_name(heap[self].requirements["build"][i])
                /\ heap[self].requirements["host"][j].from_run_export
                /\ ~heap[self].requirements["host"][j].is_transitive_dependency
                /\ HasFinalVersion(heap[self].requirements["host"][j])

-----
(* The deferred pins of finalize_solve                                     *)

OO == <<"o">>
PP == <<"p">>

\* requirement lists with deferred pins: of a package, of an Output of the
\* session, and of a name that is no Output of the session
PinBuildLists ==
    { <<>>, << <<LB>> >>, << <<PY>> >>, << <<LB, PinCompatibleTok>> >>,
      << <<PP, PinSubpackageTok>> >> }

PinHostLists ==
    { <<>>, << <<LB>> >>, << <<PY>>, <<PY, GE1>> >>,
      << <<LB, PinCompatibleTok>>, <<PP, PinSubpackageTok>> >> }

PinRunLists ==
    { << <<LB, PinCompatibleTok>> >>,
      << <<PP, PinSubpackageTok>> >>,
      << <<ZZ, PinSubpackageTok>> >>,
      << <<PP, PinSubpackageTok>>, <<LB, PinCompatibleTok>> >> }

PinCaches ==
    { CachesOf([n \in {PY, LB} |-> NoFile]),
      CachesOf([n \in {PY, LB} |->
                  IF n = LB THEN ("strong" :> << <<LB, GE2>> >>) @@ ("weak" :> << <<LB>> >>)
                  ELSE NoFile]),
      CachesOf([n \in {PY, LB} |->
                  IF n = PY THEN ("strong" :> << <<PY, GE1>> >>) @@ ("weak" :> << <<PY>> >>)
                  ELSE NoFile]) }

\* config.variant of the session: without python, or with the python it pins
PinVariants == { EmptyDict, PY :> <<"3", ".", "7">> }

\* finalize_solve of the Output "o" in a session that also builds "p"
InitPins ==
    /\ \E b \in PinBuildLists, h \in PinHostLists, r \in PinRunLists, v \in PinVariants :
          heap = << Output(OO, FALSE,
                           [e \in Envs |-> CASE e = "build" -> b [] e = "host" -> h
                                             [] e = "run" -> r [] OTHER -> <<>>],
                           NoRunExports, {}, EmptyDict, v),
                    Output(PP, FALSE, [e \in Envs |-> <<>>],
                           NoRunExports, {}, EmptyDict, EmptyDict) >>
    /\ pkg_cache \in PinCaches
    /\ pc = "solve"
    /\ cur = "build"
    /\ downloaded = "unset"
    /\ calls = <<>>
    /\ entry = heap[self].requirements
    /\ ret = "running"
    /\ ncalls = 0
    /\ recipe = EmptyDict

SpecPins == InitPins /\ [][Next]_vars

\* the pin of a Spec has been rewritten
Evaluated(s) == s.final # s.raw

\* the step evaluates a pin_compatible Spec of the list of env
EvaluatesCompatible(env) ==
    \E i \in DOMAIN heap[self].requirements[env] :
        /\ heap[self].requirements[env][i].is_pin_compatible
        /\ ~Evaluated(heap[self].requirements[env][i])
        /\ Evaluated(heap'[self].requirements[env][i])

AllBound(lst) == \A i \in DOMAIN lst : HasFinalVersion(lst[i])

\* pin_compatible is evaluated while solving run only, after the solves of
\* the non-empty build and host
CompatibleOnlyInRun ==
    /\ \A env \in Envs : EvaluatesCompatible(env) =>
          /\ env = "run" /\ cur = "run" /\ pc = "solve"
          /\ \A e \in {"build", "host"} : heap[self].requirements[e] # <<>> => e \in Solved
    /\ \A e \in Envs \ {"run"} : \A i \in DOMAIN heap'[self].requirements[e] :
          heap'[self].requirements[e][i].is_pin_compatible =>
              ~Evaluated(heap'[self].requirements[e][i])

\* when the solver has been called for env, the pin_subpackage Specs of its
\* list, and in run the pin_compatible ones, are evaluated and
\* data["requirements"][env] holds the evaluated texts
PinsBeforeSolver ==
    \A e \in Envs :
        ((pc = "solve" /\ cur = e) /\ (e \in DOMAIN heap'[self].transactions \ Solved
                                         \/ (pc' = "raised" /\ ret' = "solver"))) =>
            LET old == heap[self].requirements[e]
                new == heap'[self].requirements[e]
            IN  /\ \A i \in DOMAIN old :
                      (old[i].is_pin_subpackage \/ (e = "run" /\ old[i].is_pin_compatible))
                          => Evaluated(new[i])
                /\ heap'[self].data_requirements[e] = Finals(SubSeq(new, 1, Len(old)))

\* C23: deferred pin resolution order. pin_compatible Specs are evaluated
\* only while solving run, when the solves of the non-empty build and host
\* have completed, and the build and host lists the evaluation reads hold
\* only Specs with bound versions; a pin_compatible Spec in build or host is
\* never evaluated; pin_subpackage Specs are evaluated in every solved
\* environment before the solver call and before the finalized constraints
\* are written to data["requirements"].
C23_DeferredPinOrder ==
    [][/\ CompatibleOnlyInRun
       /\ EvaluatesCompatible("run") =>
              AllBound(heap[self].requirements["build"] \o heap[self].requirements["host"])
       /\ PinsBeforeSolver]_vars

====
